---------------------------- MODULE Spec2Model ----------------------------
(***************************************************************************)
(* A model of the six benchmark executables of rocsolver-bench:            *)
(*   bench_openblas_sgesvdj_strided_batched   (CPU, SVD, sequential batch) *)
(*   bench_openblas_ssyev                     (CPU, eigen, OpenMP batch)   *)
(*   bench_rocsolver_dgeqrf_batched           (GPU, QR, pointer-batched)   *)
(*   bench_rocsolver_dgeqrf_strided_batched   (GPU, QR, strided-batched)   *)
(*   bench_rocsolver_ssyevj_strided_batched   (GPU, eigen, strided)        *)
(*   bench_rocsolver_sgesvdj_strided_batched  (GPU, SVD, strided)          *)
(* Every program is one main(): parse, generate, provision, warm up,       *)
(* measure, statistics, report, clean up.  The variable prog says which    *)
(* executable runs; every action follows that executable's source.         *)
(*                                                                         *)
(* What the model abstracts:                                               *)
(*  - a matrix element is the draw that produced it (seed, draw number,    *)
(*    scale), not a float; an element a solver has overwritten is the      *)
(*    token Factored;                                                      *)
(*  - elapsed times are small naturals (milliseconds), statistics are      *)
(*    exact rationals, so float rounding is not modelled;                  *)
(*  - standard output is the bag of the lines written (what was written    *)
(*    and how often, not the interleaving of the OpenMP workers' lines);   *)
(*  - the external libraries (argparse, LAPACKE, rocSOLVER, HIP, malloc)   *)
(*    are the environment: the parser accepts or rejects, a solver's       *)
(*    status for a batch member is a function of that member's input, and  *)
(*    allocations of positive size succeed;                                *)
(*  - the parallel region of the CPU eigensolver is run by a team of       *)
(*    MaxThreads workers: the members of the batch are handed out in the   *)
(*    order of b, the calls run side by side and return in any order.      *)
(***************************************************************************)
EXTENDS Integers, Sequences, FiniteSets, Bags, TLC

(***************************************************************************)
(* Bounds of the model.                                                    *)
(***************************************************************************)
MaxDim == 2          \* rows and columns range over 1..MaxDim
MaxLda == 3          \* --lda ranges over 1..MaxLda
MaxStride == 5       \* a supplied --stride ranges over 1..MaxStride
MaxBatch == 2        \* --batch-count ranges over 1..MaxBatch
MaxIter == 2         \* --iterations ranges over 0..MaxIter
MaxWarmupTime == 1   \* --warmup-time ranges over -1..MaxWarmupTime; one
                     \* repetition takes 0..MaxWarmupTime + 1 ms of warm-up
MaxWarmup == 2       \* from this many warm-up repetitions on, the clock has
                     \* passed the warm-up time
MaxSamples == 3      \* statistics are checked on up to MaxSamples samples
MaxThreads == 2      \* the OpenMP team of the CPU eigensolver has this many
                     \* workers

\* the values a timing sample takes where the statistics are checked
TimeValues == {1, 2, 3, 5}
\* the values a timing sample takes where the loops are checked
LoopTimeValues == {0, 1}
\* the status a solver reports for one batch member: 0 is success
InfoCodes == {0, 1}
\* how the process ends when a heap overrun kills it: by a signal (the
\* shell's 128 + SIGSEGV), never by a return from main
Killed == 128 + 11

(***************************************************************************)
(* The six executables.                                                    *)
(***************************************************************************)
OPENBLAS_SGESVD == "bench_openblas_sgesvdj_strided_batched"
OPENBLAS_SSYEV == "bench_openblas_ssyev"
DGEQRF_BATCHED == "bench_rocsolver_dgeqrf_batched"
DGEQRF_STRIDED == "bench_rocsolver_dgeqrf_strided_batched"
SSYEVJ_STRIDED == "bench_rocsolver_ssyevj_strided_batched"
SGESVDJ_STRIDED == "bench_rocsolver_sgesvdj_strided_batched"

Programs ==
  {OPENBLAS_SGESVD, OPENBLAS_SSYEV, DGEQRF_BATCHED, DGEQRF_STRIDED,
   SSYEVJ_STRIDED, SGESVDJ_STRIDED}

IsCPU(p) == p \in {OPENBLAS_SGESVD, OPENBLAS_SSYEV}
IsGPU(p) == ~IsCPU(p)
IsSVD(p) == p \in {OPENBLAS_SGESVD, SGESVDJ_STRIDED}
\* the square programs take --size and have no --rows
IsEigen(p) == p \in {OPENBLAS_SSYEV, SSYEVJ_STRIDED}
IsQR(p) == p \in {DGEQRF_BATCHED, DGEQRF_STRIDED}
\* every program but the pointer-batched one has a --stride flag
HasStrideFlag(p) == p # DGEQRF_BATCHED
\* the routines that report a status per batch member
HasInfo(p) == ~IsQR(p)

Min(a, b) == IF a < b THEN a ELSE b
Max(a, b) == IF a < b THEN b ELSE a

Unset == "unset"

\* the workers of "#pragma omp parallel"; a worker outside the region
Workers == 0..(MaxThreads - 1)
Outside == [at |-> "outside", b |-> 0 - 1, thread_work |-> Unset]

VARIABLES
  prog,           \* which executable runs
  argv,           \* the command line, as argparse reads it
  solver_info,    \* environment: the status the solver reports for batch
                  \* member b when it is given the generated matrix b
  ticks,          \* environment: the durations (ms) the clock can measure
                  \* for one timed repetition
  pc,             \* where main() is
  M, N, lda, batch_count, random_seed, iterations, warmup_time,
  strideA, jobu, jobvt,
  hA,             \* the generated input
  heap_overrun,   \* the element indices written outside an allocation
  sizes,          \* the derived sizes, leading dimensions and strides
  alloc,          \* the resources acquired so far: buffers, handle, events,
                  \* each with where it was acquired and released
  work,           \* the matrix the solver works on: hA_copy (CPU), dA (GPU)
  dInfo,          \* the device status array (rocSOLVER eigen and SVD)
  pending,        \* batch members not yet processed in this repetition
  last_call,      \* the arguments of the latest solver call
  warmup_elapsed, warmup_count, iter, timings,
  ops,            \* the host's operations in the current repetition, in
                  \* program order
  team,           \* OpenMP worker -> where it is in the parallel region
  avg_time, std_dev,
  stdout, stderr, exit_status

argVars == <<prog, argv, solver_info, ticks>>
cfgVars == <<M, N, lda, batch_count, random_seed, iterations, warmup_time,
             strideA, jobu, jobvt>>
memVars == <<hA, heap_overrun, sizes, alloc, work, dInfo>>
loopVars == <<pending, last_call, warmup_elapsed, warmup_count, iter, timings,
              ops, team>>
statVars == <<avg_time, std_dev>>
ioVars == <<stdout, stderr, exit_status>>
vars == <<argVars, pc, cfgVars, memVars, loopVars, statVars, ioVars>>


(***************************************************************************)
(* The command line.  argparse is a library outside the repository: it     *)
(* either throws (parse_error names why) or yields the values below, with  *)
(* its defaults filled in.  has_stride is program.present("--stride").     *)
(***************************************************************************)
ParseErrors == {"unknown argument", "missing value", "not a number"}
SvectNames == {"none", "singular", "all"}
Seeds == {42}

Args(rows, cols, l, hs, s, b, it, w, lsv, rsv) ==
  [parse_error |-> "none", rows |-> rows, cols |-> cols, lda |-> l,
   has_stride |-> hs, stride |-> s, batch_count |-> b, random_seed |-> 42,
   iterations |-> it, warmup_time |-> w, left_svect |-> lsv,
   right_svect |-> rsv]

Rejected(e) ==
  [parse_error |-> e, rows |-> 0, cols |-> 0, lda |-> 0,
   has_stride |-> FALSE, stride |-> 0, batch_count |-> 0, random_seed |-> 0,
   iterations |-> 0, warmup_time |-> 0, left_svect |-> "all",
   right_svect |-> "all"]

\* the row counts a program can be given: the square programs have only --size
RowChoices(p, cols) == IF IsEigen(p) THEN {cols} ELSE 1..MaxDim
StrideChoices(p) ==
  {<<FALSE, 0>>} \cup
  (IF HasStrideFlag(p) THEN {<<TRUE, s>> : s \in 1..MaxStride} ELSE {})
SvectChoices(p) == IF IsSVD(p) THEN SvectNames ELSE {"all"}

\* every shape, with one warm-up repetition and one timed repetition: every
\* stride with both sides "all", every pair of modes with the stride defaulted
ArgvShape(p) ==
  {Rejected(e) : e \in ParseErrors} \cup
  {a \in {Args(r, c, l, st[1], st[2], b, 1, 0, lsv, rsv) :
            c \in 1..MaxDim, r \in 1..MaxDim, l \in 1..MaxLda,
            st \in StrideChoices(p), b \in 1..MaxBatch,
            lsv \in SvectChoices(p), rsv \in SvectChoices(p)} :
     /\ a.rows \in RowChoices(p, a.cols)
     /\ a.has_stride => (a.left_svect = "all" /\ a.right_svect = "all")}

\* every loop configuration, on 2 x 2 matrices with --lda 1 (so the clamp
\* acts) and the stride defaulted; and one run with a stride that is too
\* small (--stride 1)
ArgvHarness(p) ==
  {Rejected(e) : e \in ParseErrors} \cup
  {Args(2, 2, 1, FALSE, 0, b, it, w, "all", "all") :
     b \in 1..MaxBatch, it \in 0..MaxIter, w \in (0 - 1)..MaxWarmupTime} \cup
  (IF HasStrideFlag(p)
   THEN {Args(2, 2, 1, TRUE, 1, 2, 1, 0, "all", "all")} ELSE {})

(***************************************************************************)
(* Matrix elements and buffers.  A buffer is a function on 0..n-1.         *)
(***************************************************************************)
Uninit == [kind |-> "uninit"]
\* a value out of an engine that was not seeded with random_seed
DrawUnseeded(seed, k, scale) ==
  [kind |-> "draw", seed |-> 0 - 1, draw |-> k, scale |-> scale]
\* the k-th value of std::mt19937 gen(random_seed) through dis, times scale
Draw(seed, k, scale) == [kind |-> "draw", seed |-> seed, draw |-> k, scale |-> scale]
Factored == [kind |-> "factored"]

Malloc(n) == [x \in 0..(n - 1) |-> Uninit]
Len0(buf) == Cardinality(DOMAIN buf)

\* a store through a pointer into an allocation of Len0(st.mem) elements:
\* inside it the element changes; outside it the heap is overrun
Store(st, idx, v) ==
  IF idx \in DOMAIN st.mem
  THEN [st EXCEPT !.mem = [st.mem EXCEPT ![idx] = v]]
  ELSE [st EXCEPT !.oob = st.oob \cup {idx}]

(***************************************************************************)
(* Argument handling of main().                                            *)
(***************************************************************************)
\* if (lda < M) lda = M;   (N for the square programs)
ClampLdaNoClamp(l, m) == l
ClampLda(l, m) == IF l < m THEN m ELSE l

\* (variant of StrideOf: a stride below lda * N is raised to lda * N)
StrideOfChecked(a, l, n) ==
  IF a.has_stride /\ a.stride >= l * n THEN a.stride ELSE l * n
\* strideA = present("--stride") ? get("--stride") : lda * N
StrideOfNoLda(a, l, n) == IF a.has_stride THEN a.stride ELSE a.lda * n
StrideOf(a, l, n) == IF a.has_stride THEN a.stride ELSE l * n

\* "none" -> N, "singular" -> S, anything else -> A
ParseSvect(str) ==
  IF str = "none" THEN "N" ELSE IF str = "singular" THEN "S" ELSE "A"

(***************************************************************************)
(* The generators.  p holds the arguments of the call: M, N, lda, strideA, *)
(* batch_count, random_seed.  The loops are followed one store at a time:  *)
(* (b, i, j) is the loop position, k the number of draws taken from the    *)
(* engine so far, st the allocation and the stores that missed it.         *)
(***************************************************************************)
GenArgs(m, n, l, s, bc, seed) ==
  [M |-> m, N |-> n, lda |-> l, strideA |-> s, batch_count |-> bc,
   random_seed |-> seed]

\* the outer loop has ended: b < batch_count fails.  (k >= 0 and st is a
\* record at every step; naming them here makes TLC evaluate the store of a
\* step at that step instead of deferring all of them to the end.)
LoopDone(p, b, k, st) == b >= p.batch_count \/ k < 0 \/ DOMAIN st = {}

\* create_matrices_for_sgesvdj_strided_batched, create_example_matrices
\* (strided): for b, for i < M, for j < N: hA[i + j*lda + b*strideA] = dis(gen)
RECURSIVE FillGeneral(_, _, _, _, _, _)
FillGeneral(p, b, i, j, k, st) ==
  IF LoopDone(p, b, k, st) THEN st
  ELSE IF i >= p.M THEN FillGeneral(p, b + 1, 0, 0, k, st)
  ELSE IF j >= p.N THEN FillGeneral(p, b, i + 1, 0, k, st)
  ELSE FillGeneral(p, b, i, j + 1, k + 1,
         Store(st, i + j * p.lda + b * p.strideA, Draw(p.random_seed, k, 1)))

create_matrices_strided(p) ==
  FillGeneral(p, 0, 0, 0, 0,
              [mem |-> Malloc(p.strideA * p.batch_count), oob |-> {}])

\* the two stores of one off-diagonal draw: hA[i + j*lda + ..] = value and
\* hA[j + i*lda + ..] = value
MirrorStoreRedraw(p, b, i, j, k, st) ==
  Store(Store(st, i + j * p.lda + b * p.strideA, Draw(p.random_seed, k, 1)),
        j + i * p.lda + b * p.strideA, Draw(p.random_seed, k + 1, 1))
MirrorStore(p, b, i, j, k, st) ==
  Store(Store(st, i + j * p.lda + b * p.strideA, Draw(p.random_seed, k, 1)),
        j + i * p.lda + b * p.strideA, Draw(p.random_seed, k, 1))

\* create_matrices (ssyev), create_symmetric_matrices: for b, for i < N: the
\* diagonal element is a draw times 10, then for j in i+1..N-1 one draw goes
\* to (i,j) and to (j,i).  j = i marks the diagonal store of row i.
RECURSIVE FillSymmetric(_, _, _, _, _, _)
FillSymmetric(p, b, i, j, k, st) ==
  IF LoopDone(p, b, k, st) THEN st
  ELSE IF i >= p.N THEN FillSymmetric(p, b + 1, 0, 0, k, st)
  ELSE IF j = i THEN
    FillSymmetric(p, b, i, i + 1, k + 1,
      Store(st, i + i * p.lda + b * p.strideA, Draw(p.random_seed, k, 10)))
  ELSE IF j >= p.N THEN FillSymmetric(p, b, i + 1, i + 1, k, st)
  ELSE FillSymmetric(p, b, i, j + 1, k + 1, MirrorStore(p, b, i, j, k, st))

create_symmetric_matrices(p) ==
  FillSymmetric(p, 0, 0, 0, 0,
                [mem |-> Malloc(p.strideA * p.batch_count), oob |-> {}])

\* a store into matrix b of the pointer-batched array
StoreBatched(st, b, idx, v) ==
  IF idx \in DOMAIN st.mem[b]
  THEN [st EXCEPT !.mem[b] = [st.mem[b] EXCEPT ![idx] = v]]
  ELSE [st EXCEPT !.oob = st.oob \cup {<<b, idx>>}]

\* create_example_matrices (pointer-batched): hA[b] = malloc(lda * N) for
\* every b, then for b, for i < M, for j < N: hA[b][i + j*lda] = dis(gen)
RECURSIVE FillBatched(_, _, _, _, _, _)
FillBatched(p, b, i, j, k, st) ==
  IF LoopDone(p, b, k, st) THEN st
  ELSE IF i >= p.M THEN FillBatched(p, b + 1, 0, 0, k, st)
  ELSE IF j >= p.N THEN FillBatched(p, b, i + 1, 0, k, st)
  ELSE FillBatched(p, b, i, j + 1, k + 1,
         StoreBatched(st, b, i + j * p.lda, Draw(p.random_seed, k, 1)))

create_matrices_batched(p) ==
  FillBatched(p, 0, 0, 0, 0,
              [mem |-> [b \in 0..(p.batch_count - 1) |-> Malloc(p.lda * p.N)],
               oob |-> {}])

\* the generator each program calls
Generate(pr, p) ==
  IF pr = DGEQRF_BATCHED THEN create_matrices_batched(p)
  ELSE IF IsEigen(pr) THEN create_symmetric_matrices(p)
  ELSE create_matrices_strided(p)

(***************************************************************************)
(* Derived sizes ("calculate the sizes of our arrays"), one operator per   *)
(* program, each field under the name the source gives it.                 *)
(***************************************************************************)
\* ldu = (jobu == 'N') ? 1 : M
LduNoneZero(ju, m) == IF ju = "N" THEN 0 ELSE m
Ldu(ju, m) == IF ju = "N" THEN 1 ELSE m

\* openblas: strideU = (jobu == 'N') ? 1 : ldu * ((jobu == 'A') ? M : min_mn)
StrideUOpenblas(ju, ldu, m, min_mn) ==
  IF ju = "N" THEN 1 ELSE ldu * (IF ju = "A" THEN m ELSE min_mn)

\* rocsolver: strideU = none ? 1 : singular ? ldu * min_mn : ldu * M
StrideURocsolver(ju, ldu, m, min_mn) ==
  IF ju = "N" THEN 1 ELSE IF ju = "S" THEN ldu * min_mn ELSE ldu * m

\* openblas: ldvt = (jobvt == 'N') ? 1 : N
Ldvt(jvt, n) == IF jvt = "N" THEN 1 ELSE n

\* (variant of Ldv: singular sized as all)
LdvFull(jv, n, min_mn) == IF jv = "N" THEN 1 ELSE n
\* rocsolver: ldv = none ? 1 : singular ? min_mn : N
Ldv(jv, n, min_mn) ==
  IF jv = "N" THEN 1 ELSE IF jv = "S" THEN min_mn ELSE n

\* both: strideVT = (jobvt == 'N') ? 1 : ldvt * N
StrideV(jv, ldv, n) == IF jv = "N" THEN 1 ELSE ldv * n

\* size_A = strideA * (size_t)batch_count
SizeAByLda(s, l, n, bc) == l * n * bc
SizeA(s, l, n, bc) == s * bc

\* (variant of LworkSgesvd: three elements per row or column)
LworkSgesvdThree(m, n) == 3 * Max(m, n)
\* lwork = 5 * std::max(M, N)
LworkSgesvd(m, n) == 5 * Max(m, n)

SizesOpenblasSgesvd(m, n, l, s, bc, ju, jvt) ==
  LET min_mn == IF m < n THEN m ELSE n
      ldu == Ldu(ju, m)
      ldvt == Ldvt(jvt, n)
      strideU == StrideUOpenblas(ju, ldu, m, min_mn)
      strideVT == StrideV(jvt, ldvt, n)
  IN [size_A |-> SizeA(s, l, n, bc), min_mn |-> min_mn, strideS |-> min_mn,
      size_S |-> min_mn * bc, ldu |-> ldu, ldvt |-> ldvt,
      strideU |-> strideU, strideVT |-> strideVT,
      size_U |-> strideU * bc, size_VT |-> strideVT * bc,
      lwork |-> LworkSgesvd(m, n)]

SizesRocsolverSgesvdj(m, n, l, s, bc, ju, jv) ==
  LET min_mn == IF m < n THEN m ELSE n
      ldu == Ldu(ju, m)
      ldv == Ldv(jv, n, min_mn)
      strideU == StrideURocsolver(ju, ldu, m, min_mn)
      strideV == StrideV(jv, ldv, n)
  IN [size_A |-> SizeA(s, l, n, bc), min_mn |-> min_mn, strideS |-> min_mn,
      size_S |-> min_mn * bc, size_info |-> bc, ldu |-> ldu, ldv |-> ldv,
      strideU |-> strideU, strideV |-> strideV,
      size_U |-> strideU * bc, size_V |-> strideV * bc]

\* lwork = (lapack_int)work_query: what LAPACK's workspace query answers is
\* the library's; ssyev documents it to be at least max(1, 3N - 1)
SsyevWorkQuery(n) == Max(1, 3 * n - 1)

SizesOpenblasSsyev(n, l, s, bc) ==
  [size_A |-> SizeA(s, l, n, bc), strideW |-> n, size_W |-> n * bc,
   lwork |-> SsyevWorkQuery(n)]

SizesRocsolverSsyevj(n, l, s, bc) ==
  [size_A |-> SizeA(s, l, n, bc), strideW |-> n, size_W |-> n * bc,
   size_info |-> bc]

SizesDgeqrfStrided(m, n, l, s, bc) ==
  [size_A |-> SizeA(s, l, n, bc), strideP |-> (IF m < n THEN m ELSE n),
   size_piv |-> (IF m < n THEN m ELSE n) * bc]

\* pointer-batched: size_A = lda * (size_t)N is the size of ONE matrix
SizesDgeqrfBatched(m, n, l, bc) ==
  [size_A |-> l * n, strideP |-> (IF m < n THEN m ELSE n),
   size_piv |-> (IF m < n THEN m ELSE n) * bc]

SizesOf(pr, m, n, l, s, bc, ju, jvt) ==
  CASE pr = OPENBLAS_SGESVD -> SizesOpenblasSgesvd(m, n, l, s, bc, ju, jvt)
    [] pr = SGESVDJ_STRIDED -> SizesRocsolverSgesvdj(m, n, l, s, bc, ju, jvt)
    [] pr = OPENBLAS_SSYEV -> SizesOpenblasSsyev(n, l, s, bc)
    [] pr = SSYEVJ_STRIDED -> SizesRocsolverSsyevj(n, l, s, bc)
    [] pr = DGEQRF_STRIDED -> SizesDgeqrfStrided(m, n, l, s, bc)
    [] pr = DGEQRF_BATCHED -> SizesDgeqrfBatched(m, n, l, bc)

(***************************************************************************)
(* Resources.  alloc is the set of the resources acquired so far: buffers  *)
(* (n elements), the rocBLAS handle and the HIP events.  idx tells the     *)
(* per-matrix buffers of the pointer-batched program apart.                *)
(***************************************************************************)
Res(name, idx, n, kind) ==
  [buf |-> name, idx |-> idx, n |-> n, kind |-> kind, state |-> "allocated",
   at |-> pc, frees |-> 0, freed_at |-> "never"]

\* how a resource is told apart: by its name and its index
Id(r) == <<r.buf, r.idx>>
Ids(names) == {<<name, 0>> : name \in names}

\* what the generator allocates
GeneratorAllocs(pr, p) ==
  IF pr = DGEQRF_BATCHED
  THEN {Res("hA", 0, p.batch_count, "malloc")} \cup
       {Res("hA[b]", b, p.lda * p.N, "malloc") : b \in 0..(p.batch_count - 1)}
  ELSE {Res("hA", 0, p.strideA * p.batch_count, "malloc")}

GpuEvents ==
  {Res("start", 0, 1, "event"), Res("stop", 0, 1, "event"),
   Res("warmup_start", 0, 1, "event"), Res("warmup_current", 0, 1, "event")}

\* what main() acquires between the generator and the warm-up loop
ProvisionAllocs(pr, sz, bc) ==
  CASE pr = OPENBLAS_SGESVD ->
         {Res("hS", 0, sz.size_S, "malloc"), Res("hU", 0, sz.size_U, "malloc"),
          Res("hVT", 0, sz.size_VT, "malloc"),
          Res("hA_copy", 0, sz.size_A, "malloc"),
          Res("work", 0, sz.lwork, "malloc")}
    [] pr = OPENBLAS_SSYEV ->
         {Res("hW", 0, sz.size_W, "malloc"),
          Res("hA_copy", 0, sz.size_A, "malloc")}
    [] pr = DGEQRF_BATCHED ->
         {Res("handle", 0, 1, "handle"), Res("A", 0, bc, "malloc"),
          Res("dA", 0, bc, "hipMalloc"),
          Res("dIpiv", 0, sz.size_piv, "hipMalloc")} \cup
         {Res("A[b]", b, sz.size_A, "hipMalloc") : b \in 0..(bc - 1)} \cup
         GpuEvents
    [] pr = DGEQRF_STRIDED ->
         {Res("handle", 0, 1, "handle"), Res("dA", 0, sz.size_A, "hipMalloc"),
          Res("dIpiv", 0, sz.size_piv, "hipMalloc")} \cup GpuEvents
    [] pr = SSYEVJ_STRIDED ->
         {Res("handle", 0, 1, "handle"), Res("dA", 0, sz.size_A, "hipMalloc"),
          Res("dW", 0, sz.size_W, "hipMalloc"),
          Res("dInfo", 0, sz.size_info, "hipMalloc"),
          Res("dResidual", 0, bc, "hipMalloc"),
          Res("dNSweeps", 0, bc, "hipMalloc")} \cup GpuEvents
    [] pr = SGESVDJ_STRIDED ->
         {Res("handle", 0, 1, "handle"), Res("dA", 0, sz.size_A, "hipMalloc"),
          Res("dS", 0, sz.size_S, "hipMalloc"),
          Res("dU", 0, sz.size_U, "hipMalloc"),
          Res("dV", 0, sz.size_V, "hipMalloc"),
          Res("dInfo", 0, sz.size_info, "hipMalloc"),
          Res("dResidual", 0, bc, "hipMalloc"),
          Res("dNSweeps", 0, bc, "hipMalloc")} \cup GpuEvents

\* free(p), hipFree(p), hipEventDestroy(e), rocblas_destroy_handle(h)
Freed(r) ==
  [r EXCEPT !.state = "freed", !.frees = @ + 1, !.freed_at = pc]

\* the resources with these names, released
Release(al, names) == {IF r.buf \in names THEN Freed(r) ELSE r : r \in al}
\* a free that is left out
ReleaseAtNever(al, ids) == al
\* the resources with these names and indices, released
ReleaseAt(al, ids) == {IF Id(r) \in ids THEN Freed(r) ELSE r : r \in al}

\* "clean up": the names main() frees, destroys or hipFrees at its end
CleanUpNames(pr) ==
  CASE pr = OPENBLAS_SGESVD -> {"hA", "hA_copy", "hS", "hU", "hVT", "work"}
    [] pr = OPENBLAS_SSYEV -> {"hA", "hA_copy", "hW"}
    [] pr = DGEQRF_BATCHED ->
         {"hA[b]", "hA", "A[b]", "A", "dA", "dIpiv", "start", "stop", "handle"}
    [] pr = DGEQRF_STRIDED ->
         {"dA", "dIpiv", "hA", "start", "stop", "handle"}
    [] pr = SSYEVJ_STRIDED ->
         {"dA", "dW", "dInfo", "dResidual", "dNSweeps", "hA", "start", "stop",
          "handle"}
    [] pr = SGESVDJ_STRIDED ->
         {"dA", "dS", "dU", "dV", "dInfo", "dResidual", "dNSweeps", "hA",
          "start", "stop", "handle"}

(***************************************************************************)
(* Statistics.  A float is modelled by an exact rational [num, den] with   *)
(* den > 0, or by NaN (0/0), Inf (x/0), or the square root of a rational   *)
(* that has no rational root.                                              *)
(***************************************************************************)
RECURSIVE GCD(_, _)
GCD(a, b) == IF b = 0 THEN a ELSE GCD(b, a % b)
Abs(x) == IF x < 0 THEN 0 - x ELSE x

Q(n, d) == LET g == GCD(Abs(n), d) IN [num |-> n \div g, den |-> d \div g]
NaN == [num |-> 0, den |-> 0]
Inf == [num |-> 1, den |-> 0]
QInt(n) == Q(n, 1)
QAdd(a, b) == Q(a.num * b.den + b.num * a.den, a.den * b.den)
QSub(a, b) == Q(a.num * b.den - b.num * a.den, a.den * b.den)
QMul(a, b) == Q(a.num * b.num, a.den * b.den)
\* (variant of QDivCount: an empty sample set averaged to zero)
QDivCountGuarded(a, count) ==
  IF count = 0 THEN QInt(0) ELSE Q(a.num, a.den * count)
\* x / (float)count: a float division, which does not trap on count = 0
QDivCount(a, count) ==
  IF count = 0 THEN (IF a.num = 0 THEN NaN ELSE Inf)
  ELSE Q(a.num, a.den * count)

IsSquare(n) == \E r \in 0..n : r * r = n
Root(n) == CHOOSE r \in 0..n : r * r = n
\* sqrt(x)
QSqrt(a) ==
  IF a = NaN THEN NaN
  ELSE IF IsSquare(a.num) /\ IsSquare(a.den)
       THEN [num |-> Root(a.num), den |-> Root(a.den)]
       ELSE [sqrt_of |-> a]

\* for (float t : timings) avg_time += t;
RECURSIVE SumTimings(_, _, _)
SumTimings(ts, i, acc) ==
  IF i > Len(ts) THEN acc ELSE SumTimings(ts, i + 1, QAdd(acc, QInt(ts[i])))

\* avg_time = 0; for ... avg_time += t; avg_time /= timings.size();
Mean(ts) == QDivCount(SumTimings(ts, 1, QInt(0)), Len(ts))

\* for (float t : timings) std_dev += (t - avg_time) * (t - avg_time);
RECURSIVE SumSquares(_, _, _, _)
SumSquares(ts, avg, i, acc) ==
  IF i > Len(ts) THEN acc
  ELSE SumSquares(ts, avg, i + 1,
         QAdd(acc, QMul(QSub(QInt(ts[i]), avg), QSub(QInt(ts[i]), avg))))

\* the sample variance, over N - 1: not what the programs compute
VarianceBessel(ts, avg) ==
  QDivCount(SumSquares(ts, avg, 1, QInt(0)),
            IF Len(ts) > 1 THEN Len(ts) - 1 ELSE 0)
\* std_dev / timings.size(), the operand of the sqrt
Variance(ts, avg) == QDivCount(SumSquares(ts, avg, 1, QInt(0)), Len(ts))

\* std_dev = sqrt(std_dev / timings.size());
StdDev(ts, avg) == QSqrt(Variance(ts, avg))

(***************************************************************************)
(* Standard output: the lines the programs print.                          *)
(***************************************************************************)
LineWarmupBegin(ms) == [line |-> "Performing warm-up", ms |-> ms]
LineFailed(b, info) == [line |-> "failed for matrix", matrix |-> b, error |-> info]
LineWarmupDone(count, elapsed) ==
  [line |-> "Completed warm-up iterations", count |-> count, ms |-> elapsed]
Put(out, l) == out (+) SetToBag({l})

(***************************************************************************)
(* The initial state: main() has been entered with some command line.      *)
(***************************************************************************)
NoCall == [routine |-> "none"]
NoSizes == [size_A |-> 0]
NoInfo == 0 - 1

\* the state at the entry of main(): one program, one command line out of the
\* set Argvs[prog], the solver's statuses and the clock's values
InitWith(Argvs, Infos, Ticks) ==
  /\ prog \in Programs
  /\ argv \in Argvs[prog]
  /\ solver_info \in [0..(argv.batch_count - 1) -> Infos]
  /\ ticks = Ticks
  /\ pc = "parse"
  /\ M = 0 /\ N = 0 /\ lda = 0 /\ batch_count = 0 /\ random_seed = 0
  /\ iterations = 0 /\ warmup_time = 0
  /\ strideA = Unset /\ jobu = Unset /\ jobvt = Unset
  /\ hA = <<>> /\ heap_overrun = {} /\ sizes = NoSizes /\ alloc = {}
  /\ work = <<>> /\ dInfo = <<>>
  /\ pending = {} /\ last_call = NoCall
  /\ warmup_elapsed = 0 /\ warmup_count = 0 /\ iter = 0 /\ timings = <<>>
  /\ ops = <<>> /\ team = [t \in Workers |-> Outside]
  /\ avg_time = Unset /\ std_dev = Unset
  /\ stdout = EmptyBag /\ stderr = <<>> /\ exit_status = Unset

(***************************************************************************)
(* try { program.parse_args(argc, argv); } catch (...) { ...; return 1; }  *)
(***************************************************************************)
ParseReject ==
  /\ pc = "parse"
  /\ argv.parse_error # "none"
  /\ stderr' = <<argv.parse_error, "usage">>
  /\ exit_status' = 1
  /\ pc' = "exited"
  /\ UNCHANGED <<argVars, cfgVars, memVars, loopVars, statVars, stdout>>

\* the values are read, lda is clamped, the stride and the job letters are set
ParseAccept ==
  /\ pc = "parse"
  /\ argv.parse_error = "none"
  /\ LET rows == IF IsEigen(prog) THEN argv.cols ELSE argv.rows
         l == ClampLda(argv.lda, rows)
     IN /\ M' = rows
        /\ N' = argv.cols
        /\ lda' = l
        /\ strideA' = IF HasStrideFlag(prog) THEN StrideOf(argv, l, argv.cols)
                      ELSE Unset
  /\ batch_count' = argv.batch_count
  /\ random_seed' = argv.random_seed
  /\ iterations' = argv.iterations
  /\ warmup_time' = argv.warmup_time
  /\ jobu' = IF IsSVD(prog) THEN ParseSvect(argv.left_svect) ELSE Unset
  /\ jobvt' = IF IsSVD(prog) THEN ParseSvect(argv.right_svect) ELSE Unset
  /\ pc' = "generate"
  /\ UNCHANGED <<argVars, memVars, loopVars, statVars, ioVars>>

(***************************************************************************)
(* hA = create_...(M, N, lda, strideA, batch_count, random_seed)           *)
(***************************************************************************)
CreateMatrices ==
  /\ pc = "generate"
  /\ LET p == GenArgs(M, N, lda, strideA, batch_count, random_seed)
         g == Generate(prog, p)
     IN /\ hA' = g.mem
        /\ heap_overrun' = g.oob
        /\ alloc' = GeneratorAllocs(prog, p)
  /\ pc' = "provision"
  /\ UNCHANGED <<argVars, cfgVars, sizes, work, dInfo, loopVars, statVars,
                 ioVars>>

(***************************************************************************)
(* From the generator's return to the head of the warm-up loop: the sizes, *)
(* the allocations, the handle, the host-to-device copy, the events, the   *)
(* ssyev workspace query, the empty timings vector, the warm-up banner.    *)
(***************************************************************************)
SolverName(pr) ==
  CASE pr = OPENBLAS_SGESVD -> "LAPACKE_sgesvd_work"
    [] pr = OPENBLAS_SSYEV -> "LAPACKE_ssyev_work"
    [] pr = DGEQRF_BATCHED -> "rocsolver_dgeqrf_batched"
    [] pr = DGEQRF_STRIDED -> "rocsolver_dgeqrf_strided_batched"
    [] pr = SSYEVJ_STRIDED -> "rocsolver_ssyevj_strided_batched"
    [] pr = SGESVDJ_STRIDED -> "rocsolver_sgesvdj_strided_batched"

Provision ==
  /\ pc = "provision"
  /\ LET sz == SizesOf(prog, M, N, lda, strideA, batch_count, jobu, jobvt)
     IN /\ sizes' = sz
        /\ alloc' = alloc \cup ProvisionAllocs(prog, sz, batch_count)
        \* hA_copy is malloc'ed; dA (A[b]) receives hipMemcpy(.., hA, size_A)
        /\ work' = IF IsCPU(prog) THEN Malloc(sz.size_A) ELSE hA
        /\ last_call' =
             IF prog = OPENBLAS_SSYEV
             THEN [routine |-> SolverName(prog), phase |-> "query", n |-> N,
                   lda |-> lda, lwork |-> 0 - 1]
             ELSE last_call
  /\ dInfo' = IF IsGPU(prog) /\ HasInfo(prog)
              THEN [b \in 0..(batch_count - 1) |-> NoInfo] ELSE dInfo
  /\ timings' = <<>>
  /\ stdout' = Put(stdout, LineWarmupBegin(warmup_time))
  /\ warmup_elapsed' = 0
  /\ warmup_count' = 0
  /\ pc' = "warmup_check"
  /\ UNCHANGED <<argVars, cfgVars, hA, heap_overrun, pending, iter, ops, team,
                 statVars, stderr, exit_status>>

(***************************************************************************)
(* One solver call.  The solver reads and overwrites the M x N elements of *)
(* its matrix (leading dimension lda); its status is a function of the     *)
(* input: solver_info[b] on the generated matrix b, anything on other data.*)
(***************************************************************************)
Members == 0..(batch_count - 1)
Minimum(S) == CHOOSE x \in S : \A y \in S : x <= y

\* the elements of matrix b: A_batch = hA_copy + b * strideA, A(i,j) at
\* A_batch[i + j * lda]
Region(b) == {b * strideA + i + j * lda : i \in 0..(M - 1), j \in 0..(N - 1)}
LocalRegion == {i + j * lda : i \in 0..(M - 1), j \in 0..(N - 1)}
Overlaps(b) == \E c \in Members : c # b /\ Region(b) \cap Region(c) # {}

\* the matrix the call is given is the generated one
MemberFresh(b) ==
  IF prog = DGEQRF_BATCHED
  THEN \A idx \in LocalRegion : work[b][idx] = hA[b][idx]
  ELSE /\ \A idx \in Region(b) : idx \in DOMAIN work /\ work[idx] = hA[idx]
       \* members processed concurrently (OpenMP, device) must not share
       /\ (prog # OPENBLAS_SGESVD => ~Overlaps(b))

Overwrite(buf, region) ==
  [idx \in DOMAIN buf |-> IF idx \in region THEN Factored ELSE buf[idx]]

\* printf("... failed for matrix %d with error %d\n", b, info): both loops of
\* the CPU SVD program, the warm-up loop of the CPU eigensolver program (the
\* timed loop's printf is commented out); the GPU programs never read dInfo
PrintsFailureAlsoTimed(pr, phase) == IsCPU(pr)
PrintsFailure(pr, phase) ==
  IsCPU(pr) /\ ~(pr = OPENBLAS_SSYEV /\ phase = "timed")

\* where the member loop goes after a call: info is printed at most, no
\* branch leaves the loop on it
AfterMemberAbortsOnFailure(info, rest, here, next) ==
  IF info # 0 THEN "cleanup" ELSE IF rest = {} THEN next ELSE here
AfterMember(info, rest, here, next) == IF rest = {} THEN next ELSE here

\* one operation of the host: what is called, on which resources.  The
\* parallel region of the CPU eigensolver is one operation of the host, on
\* what its workers use, and a second one where the team has joined.
Op(what, on) == [what |-> what, on |-> on]

\* the resources a solver call is handed (the device buffers A[b] through
\* the pointer array dA)
CallResources(pr) ==
  CASE pr = OPENBLAS_SGESVD -> Ids({"hA_copy", "hS", "hU", "hVT", "work"})
    [] pr = OPENBLAS_SSYEV -> Ids({"hA_copy", "hW"})
    [] pr = DGEQRF_BATCHED ->
         Ids({"handle", "dA", "dIpiv"}) \cup {<<"A[b]", b>> : b \in Members}
    [] pr = DGEQRF_STRIDED -> Ids({"handle", "dA", "dIpiv"})
    [] pr = SSYEVJ_STRIDED ->
         Ids({"handle", "dA", "dResidual", "dNSweeps", "dW", "dInfo"})
    [] pr = SGESVDJ_STRIDED ->
         Ids({"handle", "dA", "dResidual", "dNSweeps", "dS", "dU", "dV",
              "dInfo"})

\* for (b = 0; b < batch_count; ++b) { info = LAPACKE_sgesvd_work(..); if
\* (info != 0) printf(..); }   one member per step, in the order of b
SgesvdCall(phase, next) ==
  LET b == Minimum(pending) IN
    \E info \in (IF MemberFresh(b) THEN {solver_info[b]} ELSE InfoCodes) :
      /\ work' = Overwrite(work, Region(b))
      /\ heap_overrun' = heap_overrun \cup (Region(b) \ DOMAIN work)
      /\ last_call' =
           [routine |-> SolverName(prog), phase |-> phase, member |-> b,
            jobu |-> jobu, jobvt |-> jobvt, m |-> M, n |-> N,
            lda |-> lda, ldu |-> sizes.ldu, ldvt |-> sizes.ldvt,
            lwork |-> sizes.lwork, info |-> info]
      /\ stdout' = IF info # 0 /\ PrintsFailure(prog, phase)
                   THEN Put(stdout, LineFailed(b, info)) ELSE stdout
      /\ pending' = pending \ {b}
      /\ ops' = Append(ops, Op(SolverName(prog), CallResources(prog)))
      /\ pc' = AfterMember(info, pending \ {b}, pc, next)
      /\ UNCHANGED <<dInfo, alloc, team>>

\* float *thread_work = (float*)malloc(sizeof(float) * lwork): the buffer
\* worker t allocates in this repetition
WorkspaceShared(t) == <<"thread_work", (warmup_count + iter) * MaxThreads>>
WorkspaceOf(t) == <<"thread_work", (warmup_count + iter) * MaxThreads + t>>

\* what the call of worker t on member b writes: the matrix A_batch = hA_copy
\* + b * strideA, the eigenvalues W_batch = hW + b * strideW (strideW = N),
\* the workspace
Writes(t, b) ==
  {<<<<"hA_copy", 0>>, idx>> : idx \in Region(b)} \cup
  {<<<<"hW", 0>>, b * sizes.strideW + k>> : k \in 0..(N - 1)} \cup
  {<<team[t].thread_work, k>> : k \in 0..(sizes.lwork - 1)}

Idle(t) == team[t].at = "idle"
Calling(t) == team[t].at = "calling"

\* #pragma omp parallel {: the team forks, every worker allocates its
\* workspace
Fork ==
  /\ \A t \in Workers : team[t] = Outside
  /\ team' = [t \in Workers |->
                [at |-> "idle", b |-> 0 - 1, thread_work |-> WorkspaceOf(t)]]
  /\ alloc' = alloc \cup
                {Res("thread_work", WorkspaceOf(t)[2], sizes.lwork, "malloc") :
                   t \in Workers}
  /\ ops' = Append(ops, Op("omp parallel",
                           CallResources(prog) \cup
                           {WorkspaceOf(t) : t \in Workers}))
  /\ UNCHANGED <<work, heap_overrun, last_call, stdout, pending, dInfo, pc>>

\* #pragma omp for: the members are handed out in the order of b to the
\* workers that have nothing to do; the workers are alike, so the first idle
\* one takes the member.  The calls then run side by side and return in any
\* order.
Take ==
  /\ pending # {}
  /\ \E t \in Workers : Idle(t)
  /\ LET t == Minimum({u \in Workers : Idle(u)})
         b == Minimum(pending)
     IN /\ team' = [team EXCEPT ![t].at = "calling", ![t].b = b]
        /\ pending' = pending \ {b}
  /\ UNCHANGED <<work, heap_overrun, last_call, stdout, dInfo, alloc, ops, pc>>

\* info = LAPACKE_ssyev_work(.., N, A_batch, lda, W_batch, thread_work,
\* lwork) returns to worker t; if (info != 0) printf(..) in the warm-up loop
Finish(phase) ==
  \E t \in {u \in Workers : Calling(u)} :
    LET b == team[t].b IN
      \E info \in (IF MemberFresh(b) THEN {solver_info[b]} ELSE InfoCodes) :
        /\ work' = Overwrite(work, Region(b))
        /\ heap_overrun' = heap_overrun \cup (Region(b) \ DOMAIN work)
        /\ last_call' =
             [routine |-> SolverName(prog), phase |-> phase, member |-> b,
              n |-> N, lda |-> lda, lwork |-> sizes.lwork, info |-> info]
        /\ stdout' = IF info # 0 /\ PrintsFailure(prog, phase)
                     THEN Put(stdout, LineFailed(b, info)) ELSE stdout
        /\ team' = [team EXCEPT ![t].at = "idle", ![t].b = 0 - 1]
        /\ UNCHANGED <<pending, dInfo, alloc, ops, pc>>

\* (variant of Join: the team is left as soon as no member is left to take)
JoinNoWait(next) ==
  /\ pending = {}
  /\ \A t \in Workers : team[t].at # "outside"
  /\ alloc' = ReleaseAt(alloc, {team[t].thread_work : t \in Workers})
  /\ team' = [t \in Workers |-> Outside]
  /\ ops' = Append(ops, Op("omp join", {}))
  /\ pc' = next
  /\ UNCHANGED <<work, heap_overrun, last_call, stdout, pending, dInfo>>

\* free(thread_work); }: every worker frees its workspace, the team joins
Join(next) ==
  /\ pending = {}
  /\ \A t \in Workers : Idle(t)
  /\ alloc' = ReleaseAt(alloc, {team[t].thread_work : t \in Workers})
  /\ team' = [t \in Workers |-> Outside]
  /\ ops' = Append(ops, Op("omp join", {}))
  /\ pc' = next
  /\ UNCHANGED <<work, heap_overrun, last_call, stdout, pending, dInfo>>

\* the parallel region of the CPU eigensolver, one step of it
SsyevRegion(phase, next) ==
  \/ Fork
  \/ Take
  \/ Finish(phase)
  \/ Join(next)

CpuCall(phase, next) ==
  IF prog = OPENBLAS_SSYEV THEN SsyevRegion(phase, next)
  ELSE SgesvdCall(phase, next)

\* rocsolver_..._batched(handle, .., dA, lda, .., dInfo, batch_count): one
\* call for the whole batch; the status of member b is left in dInfo[b]
GpuCall(phase, next) ==
  /\ \E f \in (IF HasInfo(prog)
               THEN {g \in [Members -> InfoCodes] :
                       \A b \in Members : MemberFresh(b) => g[b] = solver_info[b]}
               ELSE {dInfo}) :
       dInfo' = f
  /\ work' = IF prog = DGEQRF_BATCHED
             THEN [b \in Members |-> Overwrite(work[b], LocalRegion)]
             ELSE Overwrite(work, UNION {Region(b) : b \in Members})
  /\ heap_overrun' =
       IF prog = DGEQRF_BATCHED THEN heap_overrun
       ELSE heap_overrun \cup (UNION {Region(b) : b \in Members} \ DOMAIN work)
  /\ last_call' =
       CASE prog = SGESVDJ_STRIDED ->
              [routine |-> SolverName(prog), phase |-> phase, m |-> M,
               n |-> N, lda |-> lda, strideA |-> strideA,
               left_svect |-> jobu, right_svect |-> jobvt,
               strideS |-> sizes.strideS, ldu |-> sizes.ldu,
               strideU |-> sizes.strideU, ldv |-> sizes.ldv,
               strideV |-> sizes.strideV, batch_count |-> batch_count]
         [] prog = SSYEVJ_STRIDED ->
              [routine |-> SolverName(prog), phase |-> phase, n |-> N,
               lda |-> lda, strideA |-> strideA, strideW |-> sizes.strideW,
               batch_count |-> batch_count]
         [] prog = DGEQRF_STRIDED ->
              [routine |-> SolverName(prog), phase |-> phase, m |-> M,
               n |-> N, lda |-> lda, strideA |-> strideA,
               strideP |-> sizes.strideP, batch_count |-> batch_count]
         [] prog = DGEQRF_BATCHED ->
              [routine |-> SolverName(prog), phase |-> phase, m |-> M,
               n |-> N, lda |-> lda, strideP |-> sizes.strideP,
               batch_count |-> batch_count]
  /\ pending' = {}
  /\ ops' = Append(ops, Op(SolverName(prog), CallResources(prog)))
  /\ pc' = next
  /\ UNCHANGED <<stdout, alloc, team>>

SolverCall(phase, next) ==
  IF IsCPU(prog) THEN CpuCall(phase, next) ELSE GpuCall(phase, next)

(***************************************************************************)
(* The warm-up loop:                                                       *)
(*   while (warmup_elapsed < warmup_time || warmup_count == 0) {           *)
(*     [CPU: memcpy(hA_copy, hA, size_A)]  call  warmup_count++            *)
(*     warmup_elapsed = time since warmup_start }                          *)
(***************************************************************************)
\* memcpy(hA_copy, hA, sizeof(float) * size_A) on the host, hipMemcpy(dA, hA,
\* sizeof(float) * size_A, hipMemcpyHostToDevice) to the device: both return
\* when the copy is done
RefreshOp(pr) ==
  IF IsCPU(pr) THEN Op("memcpy", Ids({"hA_copy", "hA"}))
  ELSE Op("hipMemcpy", Ids({"dA", "hA"}))

WarmupContinuesNoFloor(elapsed, time, count) == elapsed < time
\* a loop that goes on while the time is not exceeded
WarmupContinuesOneMore(elapsed, time, count) == elapsed <= time \/ count = 0
WarmupContinues(elapsed, time, count) == elapsed < time \/ count = 0

\* the programs that restore the solver's input before a warm-up repetition:
\* memcpy(hA_copy, hA, sizeof(float) * size_A)
RefreshesWarmupNever(pr) == FALSE
RefreshesWarmup(pr) == IsCPU(pr)

\* a warm-up repetition up to the call
WarmupPrologue(pr) == IF RefreshesWarmup(pr) THEN <<RefreshOp(pr)>> ELSE <<>>

\* a warm-up repetition after the call: warmup_count++; then the elapsed time
\* is taken, on the GPU from the event warmup_current once it has completed
WarmupEpilogue(pr) ==
  IF IsCPU(pr)
  THEN <<Op("warmup_count++", {}), Op("warmup_current = now", {}),
         Op("warmup_elapsed = warmup_current - warmup_start", {})>>
  ELSE <<Op("warmup_count++", {}),
         Op("hipEventRecord", Ids({"warmup_current"})),
         Op("hipEventSynchronize", Ids({"warmup_current"})),
         Op("hipEventElapsedTime", Ids({"warmup_start", "warmup_current"}))>>

\* the events of the timed loop, were they destroyed with the warm-up loop
WarmupEventsTimed == {"start", "stop"}
\* the events the GPU programs destroy when the warm-up loop is left
WarmupEvents == {"warmup_start", "warmup_current"}

WarmupEnter ==
  /\ pc = "warmup_check"
  /\ WarmupContinues(warmup_elapsed, warmup_time, warmup_count)
  /\ work' = IF RefreshesWarmup(prog) THEN hA ELSE work
  /\ pending' = Members
  /\ ops' = WarmupPrologue(prog)
  /\ pc' = "warmup_call"
  /\ UNCHANGED <<argVars, cfgVars, hA, heap_overrun, sizes, alloc, dInfo,
                 last_call, warmup_elapsed, warmup_count, iter, timings, team,
                 statVars, ioVars>>

WarmupCall ==
  /\ pc = "warmup_call"
  /\ SolverCall("warmup", "warmup_tick")
  /\ UNCHANGED <<argVars, cfgVars, hA, sizes, warmup_elapsed, warmup_count,
                 iter, timings, statVars, stderr, exit_status>>

\* the clock moves on by d >= 0 ms per repetition; after MaxWarmup
\* repetitions it has passed the warm-up time
WarmupDurations ==
  {d \in 0..(MaxWarmupTime + 1) :
     warmup_count + 1 < MaxWarmup \/ warmup_elapsed + d >= warmup_time}

WarmupTick ==
  /\ pc = "warmup_tick"
  /\ warmup_count' = warmup_count + 1
  /\ \E d \in WarmupDurations : warmup_elapsed' = warmup_elapsed + d
  /\ ops' = ops \o WarmupEpilogue(prog)
  /\ pc' = "warmup_check"
  /\ UNCHANGED <<argVars, cfgVars, memVars, pending, last_call, iter, timings,
                 team, statVars, ioVars>>

\* the loop is left: the count is printed, the GPU programs destroy the two
\* warm-up events
WarmupExit ==
  /\ pc = "warmup_check"
  /\ ~WarmupContinues(warmup_elapsed, warmup_time, warmup_count)
  /\ stdout' = Put(stdout, LineWarmupDone(warmup_count, warmup_elapsed))
  /\ alloc' = IF IsGPU(prog) THEN Release(alloc, WarmupEvents) ELSE alloc
  /\ iter' = 0
  /\ pc' = "measure_check"
  /\ UNCHANGED <<argVars, cfgVars, hA, heap_overrun, sizes, work, dInfo,
                 pending, last_call, warmup_elapsed, warmup_count, timings,
                 ops, team, statVars, stderr, exit_status>>

(***************************************************************************)
(* The timed loop:                                                         *)
(*   for (iter = 0; iter < iterations; ++iter) {                           *)
(*     [CPU: memcpy(hA_copy, hA); GPU SVD: hipMemcpy(dA, hA)]              *)
(*     start  call  stop  timings.push_back(elapsed_time) }                *)
(***************************************************************************)
\* (variant of RefreshesTimed: every program copies before a timed repetition)
RefreshesTimedAll(pr) == TRUE
\* the programs that restore the solver's input before a timed repetition
RefreshesTimed(pr) == IsCPU(pr) \/ pr = SGESVDJ_STRIDED

\* start = now() on the host, hipEventRecord(start, 0) on the device
StartOp(pr) ==
  IF IsCPU(pr) THEN Op("start = now", {})
  ELSE Op("hipEventRecord", Ids({"start"}))

\* a timed repetition up to the call, with the copy inside the interval
TimedPrologueCopyTimed(pr) ==
  <<StartOp(pr)>> \o (IF RefreshesTimed(pr) THEN <<RefreshOp(pr)>> ELSE <<>>)
\* a timed repetition up to the call
TimedPrologue(pr) ==
  (IF RefreshesTimed(pr) THEN <<RefreshOp(pr)>> ELSE <<>>) \o <<StartOp(pr)>>

\* a timed repetition after the call, reading the time of an event that has
\* not been waited for
TimedEpilogueNoWait(pr) ==
  IF IsCPU(pr)
  THEN <<Op("stop = now", {}), Op("elapsed_time = stop - start", {}),
         Op("timings.push_back", {})>>
  ELSE <<Op("hipEventRecord", Ids({"stop"})),
         Op("hipEventElapsedTime", Ids({"start", "stop"})),
         Op("hipEventSynchronize", Ids({"stop"})),
         Op("timings.push_back", {})>>
\* a timed repetition after the call
TimedEpilogue(pr) ==
  IF IsCPU(pr)
  THEN <<Op("stop = now", {}), Op("elapsed_time = stop - start", {}),
         Op("timings.push_back", {})>>
  ELSE <<Op("hipEventRecord", Ids({"stop"})),
         Op("hipEventSynchronize", Ids({"stop"})),
         Op("hipEventElapsedTime", Ids({"start", "stop"})),
         Op("timings.push_back", {})>>

MeasureEnter ==
  /\ pc = "measure_check"
  /\ iter < iterations
  /\ work' = IF RefreshesTimed(prog) THEN hA ELSE work
  /\ pending' = Members
  /\ ops' = TimedPrologue(prog)
  /\ pc' = "timed_call"
  /\ UNCHANGED <<argVars, cfgVars, hA, heap_overrun, sizes, alloc, dInfo,
                 last_call, warmup_elapsed, warmup_count, iter, timings, team,
                 statVars, ioVars>>

TimedCall ==
  /\ pc = "timed_call"
  /\ SolverCall("timed", "timed_stop")
  /\ UNCHANGED <<argVars, cfgVars, hA, sizes, warmup_elapsed, warmup_count,
                 iter, timings, statVars, stderr, exit_status>>

\* timings.push_back(elapsed_time), with one more sample
PushBackTwice(ts, t) == Append(Append(ts, t), t)
PushBack(ts, t) == Append(ts, t)

\* stop; elapsed_time = stop - start; timings.push_back(elapsed_time); ++iter
TimedStop ==
  /\ pc = "timed_stop"
  /\ \E elapsed_time \in ticks : timings' = PushBack(timings, elapsed_time)
  /\ iter' = iter + 1
  /\ ops' = ops \o TimedEpilogue(prog)
  /\ pc' = "measure_check"
  /\ UNCHANGED <<argVars, cfgVars, memVars, pending, last_call,
                 warmup_elapsed, warmup_count, team, statVars, ioVars>>

MeasureExit ==
  /\ pc = "measure_check"
  /\ ~(iter < iterations)
  /\ pc' = "statistics"
  /\ UNCHANGED <<argVars, cfgVars, memVars, loopVars, statVars, ioVars>>

(***************************************************************************)
(* "calculate statistics", "print timing results", "clean up", return.     *)
(***************************************************************************)
ComputeStatistics ==
  /\ pc = "statistics"
  /\ avg_time' = Mean(timings)
  /\ std_dev' = StdDev(timings, Mean(timings))
  /\ pc' = "report"
  /\ UNCHANGED <<argVars, cfgVars, memVars, loopVars, ioVars>>

\* a report that prints the leading dimension for the matrix size
LineReportLda ==
  [line |-> "Performance Results", rows |-> lda, cols |-> lda,
   batch_count |-> batch_count,
   left_svect |-> IF IsSVD(prog) THEN argv.left_svect ELSE Unset,
   right_svect |-> IF IsSVD(prog) THEN argv.right_svect ELSE Unset,
   warmup_time |-> warmup_time, warmup_count |-> warmup_count,
   iterations |-> iterations, avg_time |-> avg_time, std_dev |-> std_dev]
\* the lines of "print timing results", as one record
LineReport ==
  [line |-> "Performance Results", rows |-> M, cols |-> N,
   batch_count |-> batch_count,
   left_svect |-> IF IsSVD(prog) THEN argv.left_svect ELSE Unset,
   right_svect |-> IF IsSVD(prog) THEN argv.right_svect ELSE Unset,
   warmup_time |-> warmup_time, warmup_count |-> warmup_count,
   iterations |-> iterations, avg_time |-> avg_time, std_dev |-> std_dev]

PrintReport ==
  /\ pc = "report"
  /\ stdout' = Put(stdout, LineReport)
  /\ pc' = "cleanup"
  /\ UNCHANGED <<argVars, cfgVars, memVars, loopVars, statVars, stderr,
                 exit_status>>

\* the frees of "clean up", then main() returns (0, explicitly in the CPU
\* programs and by falling off the end of main in the GPU programs)
CleanUp ==
  /\ pc = "cleanup"
  /\ alloc' = Release(alloc, CleanUpNames(prog))
  /\ exit_status' = 0
  /\ pc' = "exited"
  /\ UNCHANGED <<argVars, cfgVars, hA, heap_overrun, sizes, work, dInfo,
                 loopVars, statVars, stdout, stderr>>

(***************************************************************************)
(* A store outside an allocation is undefined behaviour: the run may go on *)
(* as if nothing had happened, or the process may be killed at any later   *)
(* point (the allocator finds its heap corrupted, the device faults).      *)
(***************************************************************************)
Running == pc \notin {"parse", "exited", "crashed"}

Crash ==
  /\ Running
  /\ heap_overrun # {}
  /\ pc' = "crashed"
  /\ exit_status' = Killed
  /\ UNCHANGED <<argVars, cfgVars, memVars, loopVars, statVars, stdout, stderr>>

Next ==
  \/ ParseReject
  \/ ParseAccept
  \/ CreateMatrices
  \/ Provision
  \/ WarmupEnter
  \/ WarmupCall
  \/ WarmupTick
  \/ WarmupExit
  \/ MeasureEnter
  \/ TimedCall
  \/ TimedStop
  \/ MeasureExit
  \/ ComputeStatistics
  \/ PrintReport
  \/ CleanUp
  \/ Crash

\* the loops: every loop configuration on one small shape
Init == InitWith([p \in Programs |-> ArgvHarness(p)], InfoCodes, LoopTimeValues)
Spec == Init /\ [][Next]_vars

\* the shapes: every shape, one warm-up and one timed repetition
InitShape == InitWith([p \in Programs |-> ArgvShape(p)], {0}, {1})
SpecShape == InitShape /\ [][Next]_vars

\* the statistics: every sample sequence over TimeValues, up to MaxSamples
ArgvStats(p) ==
  {Rejected(e) : e \in ParseErrors} \cup
  {Args(2, 2, 1, FALSE, 0, 1, it, 0, "all", "all") : it \in 0..MaxSamples} \cup
  (IF HasStrideFlag(p)
   THEN {Args(2, 2, 1, TRUE, 1, 2, 1, 0, "all", "all")} ELSE {})
InitStats == InitWith([p \in Programs |-> ArgvStats(p)], {0}, TimeValues)
SpecStats == InitStats /\ [][Next]_vars

\* the end-to-end scenario: 4 x 4, the default lda 10, one member, one timed
\* repetition, no warm-up time, seed 42
ScenarioArgs == Args(4, 4, 10, FALSE, 0, 1, 1, 0, "all", "all")
ArgvScenario(p) ==
  {Rejected(e) : e \in ParseErrors} \cup {ScenarioArgs} \cup
  (IF HasStrideFlag(p)
   THEN {Args(2, 2, 1, TRUE, 1, 2, 1, 0, "all", "all")} ELSE {})
InitScenario ==
  InitWith([p \in Programs |-> ArgvScenario(p)], InfoCodes,
           LoopTimeValues \cup TimeValues)
SpecScenario == InitScenario /\ [][Next]_vars

(***************************************************************************)
(* Vocabulary of the properties.                                           *)
(***************************************************************************)
Accepted == argv.parse_error = "none"
\* main() has returned after "clean up"
Returned == pc = "exited" /\ Accepted
InWarmup == pc \in {"warmup_check", "warmup_call", "warmup_tick"}
InMeasure == pc \in {"measure_check", "timed_call", "timed_stop"}
AfterMeasure == pc \in {"statistics", "report", "cleanup"} \/ Returned
AfterWarmup == InMeasure \/ AfterMeasure
AfterProvision == InWarmup \/ AfterWarmup
AfterGenerate == pc = "provision" \/ AfterProvision
AfterParse == pc = "generate" \/ AfterGenerate

\* the row count the command line gives (--size for the square programs)
ArgRows == IF IsEigen(prog) THEN argv.cols ELSE argv.rows
\* the element count of the resource name[idx]
AllocN(name, idx) == (CHOOSE r \in alloc : r.buf = name /\ r.idx = idx).n

(***************************************************************************)
(* C1: in every program, when the warm-up loop has been left, at least one *)
(* warm-up repetition has been performed (warmup_count >= 1), whatever the *)
(* configured warm-up time: positive, zero or negative.                    *)
(***************************************************************************)
C1_WarmupAtLeastOnce == AfterWarmup => warmup_count >= 1

\* the loop was left after its single forced repetition: the warm-up time is
\* not positive, so only "warmup_count == 0" kept the loop going
C1_Witness ==
  /\ pc = "measure_check"
  /\ warmup_time <= 0
  /\ warmup_count = 1
  /\ warmup_elapsed = 0

(***************************************************************************)
(* C2: the timing sample set is empty throughout the warm-up phase, holds  *)
(* one sample per completed timed repetition during the measurement, and   *)
(* holds exactly `iterations` samples (also for iterations = 0) from the    *)
(* moment the statistics are computed.                                     *)
(***************************************************************************)
C2_SamplesPerTimedRepetition ==
  /\ InWarmup => timings = <<>>
  /\ InMeasure => Len(timings) = iter /\ iter <= iterations
  /\ pc \in {"timed_call", "timed_stop"} => iter < iterations
  /\ AfterMeasure => Len(timings) = iterations

\* several warm-up repetitions added nothing, two timed ones added two
C2_Witness ==
  /\ pc = "statistics"
  /\ warmup_count >= 2
  /\ iterations = 2
  /\ Len(timings) = 2

(***************************************************************************)
(* C3: the reported average is the arithmetic mean of the samples and the  *)
(* reported deviation is the square root of the population variance (the   *)
(* sum of squared deviations over N, not N - 1): avg_time * N is the sum   *)
(* of the samples, and std_dev^2 * N^2 is N * sum(t^2) - sum(t)^2; for     *)
(* [5,5,5] that is mean 5, deviation 0, for [1,2,3] mean 2, variance 2/3.  *)
(***************************************************************************)
RECURSIVE SeqSum(_)
SeqSum(ts) == IF ts = <<>> THEN 0 ELSE ts[1] + SeqSum(Tail(ts))
RECURSIVE SeqSumSq(_)
SeqSumSq(ts) == IF ts = <<>> THEN 0 ELSE ts[1] * ts[1] + SeqSumSq(Tail(ts))

C3_MeanAndPopulationDeviation ==
  (pc \in {"report", "cleanup"} \/ Returned) /\ Len(timings) > 0 =>
    LET n == Len(timings)
        scaled == n * SeqSumSq(timings) - SeqSum(timings) * SeqSum(timings)
    IN /\ avg_time.den > 0
       /\ avg_time.num * n = SeqSum(timings) * avg_time.den
       /\ IF "sqrt_of" \in DOMAIN std_dev
          THEN std_dev.sqrt_of.num * n * n = scaled * std_dev.sqrt_of.den
          ELSE std_dev.num * std_dev.num * n * n
                 = scaled * std_dev.den * std_dev.den
       /\ timings = <<5, 5, 5>> =>
            avg_time = [num |-> 5, den |-> 1] /\ std_dev = [num |-> 0, den |-> 1]
       /\ timings = <<1, 2, 3>> =>
            /\ avg_time = [num |-> 2, den |-> 1]
            /\ std_dev = [sqrt_of |-> [num |-> 2, den |-> 3]]

\* the statistics of [1,2,3] have been computed
C3_Witness ==
  /\ pc = "report"
  /\ timings = <<1, 2, 3>>
  /\ avg_time = [num |-> 2, den |-> 1]

(***************************************************************************)
(* C4: a run whose arguments the parser rejects writes the error and the   *)
(* usage text to stderr and exits with status 1 before anything is         *)
(* generated, allocated or given to the library; a run whose arguments     *)
(* parse always ends with exit status 0.                                   *)
(***************************************************************************)
C4_RejectExitsOneAcceptExitsZero ==
  /\ pc = "exited" /\ ~Accepted =>
       /\ exit_status = 1
       /\ stderr = <<argv.parse_error, "usage">>
       /\ hA = <<>> /\ alloc = {} /\ last_call = NoCall /\ stdout = EmptyBag
  /\ pc \in {"exited", "crashed"} /\ Accepted => exit_status = 0

(***************************************************************************)
(* C5: a non-zero status never aborts the run.  Whatever status a call     *)
(* gives, the step goes on with the remaining members of the batch and     *)
(* then with the end of the repetition; and a run that returns from main   *)
(* has recorded all `iterations` samples, printed the report once and run  *)
(* the teardown, freeing every resource "clean up" names.                  *)
(***************************************************************************)
C5_CallStep ==
  pc \in {"warmup_call", "timed_call"} /\ pc' # "crashed" =>
    /\ pending' \subseteq pending
    /\ IsCPU(prog) => Cardinality(pending \ pending') <= 1
    /\ IF prog = OPENBLAS_SSYEV
       \* the parallel region is left by the join alone, with no member left
       THEN pc' # pc =>
              /\ pending = {} /\ \A t \in Workers : Idle(t)
              /\ pc' = IF pc = "warmup_call" THEN "warmup_tick"
                       ELSE "timed_stop"
       ELSE /\ pending' # pending
            /\ pc' = IF pending' # {} THEN pc
                     ELSE IF pc = "warmup_call" THEN "warmup_tick"
                     ELSE "timed_stop"
    /\ timings' = timings /\ iter' = iter

C5_StatusNeverAborts ==
  /\ [](Returned =>
          /\ Len(timings) = iterations
          /\ CopiesIn(LineReport, stdout) = 1
          /\ \A r \in alloc : r.buf \in CleanUpNames(prog) => r.state = "freed")
  /\ [][C5_CallStep]_vars

\* member 0 failed in the warm-up and in both timed repetitions, member 1 was
\* still processed, and the run returned with its two samples
C5_Witness ==
  /\ prog = OPENBLAS_SGESVD
  /\ Returned
  /\ batch_count = 2 /\ iterations = 2
  /\ CopiesIn(LineFailed(0, 1), stdout) >= 3
  /\ last_call.member = 1 /\ last_call.phase = "timed"
  /\ Len(timings) = 2
  /\ exit_status = 0

(***************************************************************************)
(* C6: in every program, a non-zero status of the library routine for      *)
(* batch member b puts a line naming b and the status on stdout; the only  *)
(* exception is the timed loop of the CPU eigensolver program.             *)
(***************************************************************************)
C6_EveryFailureIsPrinted ==
  /\ IsCPU(prog) /\ "info" \in DOMAIN last_call =>
       (last_call.info # 0
          /\ ~(prog = OPENBLAS_SSYEV /\ last_call.phase = "timed")
        => BagIn(LineFailed(last_call.member, last_call.info), stdout))
  /\ IsGPU(prog) /\ HasInfo(prog) /\ AfterProvision =>
       \A b \in Members :
         dInfo[b] \notin {0, NoInfo} => BagIn(LineFailed(b, dInfo[b]), stdout)

(***************************************************************************)
(* C7: in the strided programs the matrix buffer is allocated with stride  *)
(* x batch_count elements on the host (hA), for the host working copy      *)
(* (hA_copy) and on the device (dA), where a stride that is not given is   *)
(* the clamped leading dimension x N; in the pointer-batched program every *)
(* matrix is an allocation of its own of clamped lda x N elements, on the  *)
(* host and on the device.                                                 *)
(***************************************************************************)
C7_MatrixBufferSizes ==
  AfterProvision =>
    IF HasStrideFlag(prog)
    THEN LET n == strideA * argv.batch_count
         IN /\ strideA = IF argv.has_stride THEN argv.stride
                         ELSE Max(argv.lda, ArgRows) * argv.cols
            /\ ~argv.has_stride => strideA >= lda * N
            /\ AllocN("hA", 0) = n /\ Len0(hA) = n
            /\ AllocN(IF IsCPU(prog) THEN "hA_copy" ELSE "dA", 0) = n
            /\ Len0(work) = n
    ELSE \A b \in 0..(argv.batch_count - 1) :
           LET n == Max(argv.lda, argv.rows) * argv.cols
           IN /\ AllocN("hA[b]", b) = n /\ Len0(hA[b]) = n
              /\ AllocN("A[b]", b) = n /\ Len0(work[b]) = n

\* a stride that is neither lda x N nor a multiple of it sizes the device
\* buffer of two matrices
C7_Witness ==
  /\ prog = SGESVDJ_STRIDED
  /\ pc = "warmup_check"
  /\ argv.has_stride /\ strideA = 5 /\ lda * N = 4
  /\ batch_count = 2
  /\ AllocN("dA", 0) = 10

(***************************************************************************)
(* C8: the leading dimension in use is max(--lda, M) (M = N in the square  *)
(* programs): it is the one the generator places the elements with, the    *)
(* one the allocations are sized with where they are sized by lda, and the *)
(* one every library call is given.                                        *)
(***************************************************************************)
C8_Placed(b) ==
  {i + j * Max(argv.lda, ArgRows) + (IF HasStrideFlag(prog) THEN b * strideA ELSE 0) :
     i \in 0..(ArgRows - 1), j \in 0..(argv.cols - 1)}

C8_LeadingDimension ==
  AfterParse =>
    /\ lda = Max(argv.lda, ArgRows)
    /\ lda >= M
    /\ argv.lda >= ArgRows => lda = argv.lda
    /\ AfterGenerate =>
         IF HasStrideFlag(prog)
         THEN {idx \in DOMAIN hA : hA[idx].kind = "draw"} \cup heap_overrun
                = UNION {C8_Placed(b) : b \in 0..(argv.batch_count - 1)}
         ELSE \A b \in 0..(argv.batch_count - 1) :
                {idx \in DOMAIN hA[b] : hA[b][idx].kind = "draw"} = C8_Placed(b)
    /\ AfterProvision /\ ~argv.has_stride =>
         sizes.size_A = Max(argv.lda, ArgRows) * argv.cols
                          * (IF HasStrideFlag(prog) THEN argv.batch_count ELSE 1)
    /\ "lda" \in DOMAIN last_call => last_call.lda = Max(argv.lda, ArgRows)

\* --lda 1 on matrices of two rows: the timed call was given lda = 2
C8_Witness ==
  /\ pc = "timed_stop"
  /\ argv.lda = 1 /\ ArgRows = 2
  /\ last_call.phase = "timed" /\ last_call.lda = 2

(***************************************************************************)
(* C9: in the two SVD programs, a side whose vectors are not wanted        *)
(* ("none") gets leading dimension 1, stride 1 and a buffer of batch_count *)
(* elements; a side whose vectors are all wanted ("all") gets leading      *)
(* dimension M and stride M x M on the left, N and N x N on the right.     *)
(* The calls are given these leading dimensions.                           *)
(***************************************************************************)
C9_SvdModes ==
  IsSVD(prog) /\ AfterProvision =>
    LET ldRight == IF IsCPU(prog) THEN sizes.ldvt ELSE sizes.ldv
        strideRight == IF IsCPU(prog) THEN sizes.strideVT ELSE sizes.strideV
        sizeRight == IF IsCPU(prog) THEN sizes.size_VT ELSE sizes.size_V
        bufLeft == IF IsCPU(prog) THEN "hU" ELSE "dU"
        bufRight == IF IsCPU(prog) THEN "hVT" ELSE "dV"
    IN /\ argv.left_svect = "none" =>
            /\ sizes.ldu = 1 /\ sizes.strideU = 1
            /\ sizes.size_U = argv.batch_count
            /\ AllocN(bufLeft, 0) = argv.batch_count
       /\ argv.right_svect = "none" =>
            /\ ldRight = 1 /\ strideRight = 1
            /\ sizeRight = argv.batch_count
            /\ AllocN(bufRight, 0) = argv.batch_count
       /\ argv.left_svect = "all" =>
            /\ sizes.ldu = argv.rows
            /\ sizes.strideU = argv.rows * argv.rows
            /\ AllocN(bufLeft, 0) = argv.rows * argv.rows * argv.batch_count
       /\ argv.right_svect = "all" =>
            /\ ldRight = argv.cols
            /\ strideRight = argv.cols * argv.cols
            /\ AllocN(bufRight, 0) = argv.cols * argv.cols * argv.batch_count
       /\ "ldu" \in DOMAIN last_call =>
            /\ last_call.ldu = sizes.ldu
            /\ (IF IsCPU(prog) THEN last_call.ldvt ELSE last_call.ldv) = ldRight

\* a 2 x 1 problem, no left vectors, all right vectors, after a timed call
C9_Witness ==
  /\ IsSVD(prog)
  /\ pc = "timed_stop"
  /\ argv.left_svect = "none" /\ argv.right_svect = "all"
  /\ M = 2 /\ N = 1 /\ batch_count = 2
  /\ sizes.size_U = 2
  /\ last_call.ldu = 1

(***************************************************************************)
(* C10: the symmetric generator, with the stride defaulted, makes every    *)
(* matrix exactly symmetric: A[i,j] and A[j,i] hold the same draw,         *)
(* unscaled; a diagonal element is a draw of its own, scaled by 10.        *)
(***************************************************************************)
C10_Symmetric ==
  IsEigen(prog) /\ AfterGenerate /\ ~argv.has_stride =>
    \A b \in 0..(batch_count - 1) : \A i, j \in 0..(N - 1) :
      LET upper == hA[i + j * lda + b * strideA]
          lower == hA[j + i * lda + b * strideA]
      IN IF i # j
         THEN upper = lower /\ upper.kind = "draw" /\ upper.scale = 1
         ELSE /\ upper.kind = "draw" /\ upper.scale = 10
              /\ \A r, c \in 0..(N - 1) :
                   r # c => hA[r + c * lda + b * strideA].draw # upper.draw

\* two padded 2 x 2 matrices (lda 3) out of the generator
C10_Witness ==
  /\ IsEigen(prog)
  /\ pc = "provision"
  /\ ~argv.has_stride
  /\ N = 2 /\ lda = 3 /\ batch_count = 2
  /\ hA[1 + strideA] = hA[lda + strideA]
  /\ hA[lda + strideA].kind = "draw"

(***************************************************************************)
(* C11: the generated buffer is a function of the generator's arguments    *)
(* (M, N, lda, stride, batch_count, seed) alone, with the draws consumed   *)
(* in a fixed order: the element (i, j) of member b holds draw number      *)
(* b*M*N + i*N + j of the engine seeded with the seed in the general       *)
(* generators, and in the symmetric generator the diagonal element i holds *)
(* draw b*N*(N+1)/2 + i*N - i*(i-1)/2 and (i, j), (j, i) with j > i hold   *)
(* the draw j - i after it.  Where members overlap (a small stride) the    *)
(* later store stays.  So two runs with equal arguments agree everywhere,   *)
(* from the generator's return to the end of the run.                      *)
(***************************************************************************)
\* the stores of the strided generators: <<position, draw number, scale>>
C11_Stores ==
  IF IsEigen(prog)
  THEN {<<i + j * lda + b * strideA,
          b * ((N * (N + 1)) \div 2) + Min(i, j) * N
            - ((Min(i, j) * (Min(i, j) - 1)) \div 2) + (Max(i, j) - Min(i, j)),
          IF i = j THEN 10 ELSE 1>> :
          b \in 0..(batch_count - 1), i \in 0..(N - 1), j \in 0..(N - 1)}
  ELSE {<<i + j * lda + b * strideA, b * M * N + i * N + j, 1>> :
          b \in 0..(batch_count - 1), i \in 0..(M - 1), j \in 0..(N - 1)}

\* the last store to a position, among the stores
C11_Last(stores, pos) ==
  CHOOSE w \in stores :
    w[1] = pos /\ \A v \in stores : v[1] = pos => v[2] <= w[2]

C11_Expected(stores, pos) ==
  LET last == C11_Last(stores, pos)
  IN [kind |-> "draw", seed |-> argv.random_seed, draw |-> last[2],
      scale |-> last[3]]

C11_GeneratorDeterministic ==
  pc = "provision" \/ Returned =>
    IF prog = DGEQRF_BATCHED
    THEN \A b \in 0..(batch_count - 1) : \A i \in 0..(M - 1), j \in 0..(N - 1) :
           hA[b][i + j * lda] =
             [kind |-> "draw", seed |-> argv.random_seed,
              draw |-> b * M * N + i * N + j, scale |-> 1]
    ELSE LET stores == C11_Stores
             written == {w[1] : w \in stores}
         IN /\ \A pos \in written \cap DOMAIN hA :
                 hA[pos] = C11_Expected(stores, pos)
            /\ \A pos \in DOMAIN hA \ written : hA[pos] = Uninit
            /\ ~argv.has_stride => written \subseteq DOMAIN hA

\* two 2 x 2 members with padding (lda 3), stride defaulted, at the end of a
\* run whose calls overwrote the working copy: the last element of member 1
\* is draw 7, the padding was never written
C11_Witness ==
  /\ prog = DGEQRF_STRIDED
  /\ Returned
  /\ M = 2 /\ N = 2 /\ lda = 3 /\ batch_count = 2 /\ ~argv.has_stride
  /\ hA[1 + lda + strideA].draw = 7
  /\ hA[2] = Uninit

(***************************************************************************)
(* C12: a symmetric-eigensolver program run on 4 x 4 matrices with batch   *)
(* count 1, 1 iteration, warm-up time 0 and seed 42 is never killed, makes *)
(* exactly one warm-up repetition and one timed repetition, and prints one *)
(* report with matrix size 4 x 4, batch count 1 and a mean time that is    *)
(* the single sample, which is not negative.                               *)
(***************************************************************************)
C12_Scenario ==
  IsEigen(prog) /\ argv = ScenarioArgs =>
    /\ pc # "crashed"
    /\ AfterWarmup => warmup_count = 1
    /\ AfterMeasure => Len(timings) = 1 /\ timings[1] >= 0
    /\ pc = "cleanup" \/ Returned =>
         /\ BagCardinality(stdout) = CopiesIn(LineFailed(0, 1), stdout) + 3
         /\ CopiesIn(LineReport, stdout) = 1
         /\ LineReport.rows = 4 /\ LineReport.cols = 4
         /\ LineReport.batch_count = 1
         /\ LineReport.warmup_count = 1 /\ LineReport.iterations = 1
         /\ LineReport.avg_time = [num |-> timings[1], den |-> 1]
    /\ Returned => exit_status = 0

\* the CPU eigensolver has returned from the scenario with a sample of 3 ms
C12_Witness ==
  /\ prog = OPENBLAS_SSYEV
  /\ argv = ScenarioArgs
  /\ Returned
  /\ timings = <<3>>
  /\ CopiesIn(LineReport, stdout) = 1

(***************************************************************************)
(* C13: the warm-up loop is left only at a check where the elapsed time,   *)
(* measured at the end of the latest repetition, has reached the warm-up   *)
(* time and a repetition has run; a repetition is started only at a check  *)
(* where the elapsed time is below the warm-up time or none has run yet    *)
(* (so none is started after the time was reached); the elapsed time never *)
(* changes but at the end of a repetition, together with the count.        *)
(***************************************************************************)
C13_Step ==
  /\ pc = "warmup_check" /\ pc' = "measure_check" =>
       warmup_elapsed >= warmup_time /\ warmup_count >= 1
  /\ pc = "warmup_check" /\ pc' = "warmup_call" =>
       warmup_elapsed < warmup_time \/ warmup_count = 0
  /\ pc = "warmup_check" => pc' \in {"warmup_check", "warmup_call",
                                     "measure_check", "crashed"}
  /\ warmup_elapsed' # warmup_elapsed \/ warmup_count' # warmup_count =>
       \/ pc = "provision"
       \/ /\ pc = "warmup_tick" /\ pc' = "warmup_check"
          /\ warmup_count' = warmup_count + 1
          /\ warmup_elapsed' >= warmup_elapsed

C13_WarmupUntilElapsed ==
  /\ [](AfterWarmup => warmup_elapsed >= warmup_time)
  /\ [][C13_Step]_vars

\* the first repetition ended below the warm-up time, so a second one ran, and
\* the loop was left at the check after it
C13_Witness ==
  /\ pc = "measure_check"
  /\ warmup_time = 1
  /\ warmup_count = 2
  /\ warmup_elapsed >= 1

(***************************************************************************)
(* C14: in the two CPU programs, at the start of every warm-up repetition  *)
(* and of every timed repetition the working buffer hA_copy, all stride x  *)
(* batch_count elements of it, equals the generated buffer hA; with the    *)
(* stride defaulted every member still to be processed is the generated    *)
(* matrix; and hA is never written after the generator has returned.       *)
(***************************************************************************)
C14_Step == pc # "generate" => hA' = hA

C14_FreshCopyPerRepetition ==
  /\ [](IsCPU(prog) /\ pc \in {"warmup_call", "timed_call"} =>
          /\ pending = Members =>
               work = hA /\ DOMAIN work = 0..(strideA * batch_count - 1)
          /\ ~argv.has_stride => \A b \in pending : MemberFresh(b))
  /\ [][C14_Step]_vars

\* the second timed repetition of the CPU SVD program starts on the generated
\* input although the calls of the first one overwrote the working buffer
C14_Witness ==
  /\ prog = OPENBLAS_SGESVD
  /\ pc = "timed_call"
  /\ iter = 1
  /\ pending = Members
  /\ last_call.phase = "timed"
  /\ work = hA

(***************************************************************************)
(* C15: in the GPU SVD program every timed iteration starts with a copy of *)
(* the whole generated input to the device, so every timed call is given   *)
(* the generated matrices; the copy is the one operation before the record *)
(* of the start event, which follows it in program order (hipMemcpy        *)
(* returns when the copy is done), so the copy is outside the interval     *)
(* between the events start and stop.                                      *)
(***************************************************************************)
\* the positions of the operations `what` on the resources `names` in ops
OpsAt(what, names) ==
  {i \in 1..Len(ops) : ops[i] = Op(what, Ids(names))}
\* ops holds a timed repetition, as far as it has got
InTimedRepetition ==
  pc \in {"timed_call", "timed_stop"} \/ (pc = "measure_check" /\ iter > 0)

C15_FreshCopyBeforeTimedIteration ==
  prog = SGESVDJ_STRIDED =>
    /\ pc = "timed_call" =>
         /\ work = hA
         /\ DOMAIN work = 0..(sizes.size_A - 1)
         /\ ops = <<Op("hipMemcpy", Ids({"dA", "hA"})),
                    Op("hipEventRecord", Ids({"start"}))>>
    /\ InTimedRepetition =>
         /\ OpsAt("hipMemcpy", {"dA", "hA"}) = {1}
         /\ OpsAt("hipEventRecord", {"start"}) = {2}
         /\ \A i \in OpsAt("hipEventRecord", {"stop"}) : i > 2

\* the second timed iteration has copied, recorded start, and made its call
C15_Witness ==
  /\ prog = SGESVDJ_STRIDED
  /\ pc = "timed_stop" /\ iter = 1
  /\ work # hA
  /\ Len(ops) = 3 /\ ops[1].what = "hipMemcpy"
  /\ ops[3].what = SolverName(prog)

(***************************************************************************)
(* C16: in the four GPU programs a timed iteration records start, issues   *)
(* the call, records stop, synchronizes on stop, reads the elapsed time    *)
(* and appends the sample, each once and in this order; the elapsed time   *)
(* between start and stop is never read before the synchronization on      *)
(* stop, and in the warm-up loop the elapsed time is read only after the   *)
(* synchronization on warmup_current, itself after its record.             *)
(***************************************************************************)
\* ops holds a warm-up repetition, as far as it has got
InWarmupRepetition ==
  \/ pc \in {"warmup_call", "warmup_tick"}
  \/ pc = "warmup_check" /\ warmup_count > 0
  \/ pc = "measure_check" /\ iter = 0
\* every operation at a position of `later` has one of `earlier` before it
C16_Before(earlier, later) == \A i \in later : \E j \in earlier : j < i

C16_EventOrder ==
  IsGPU(prog) =>
    LET record_start == OpsAt("hipEventRecord", {"start"})
        call == {i \in 1..Len(ops) : ops[i].what = SolverName(prog)}
        record_stop == OpsAt("hipEventRecord", {"stop"})
        sync_stop == OpsAt("hipEventSynchronize", {"stop"})
        elapsed == OpsAt("hipEventElapsedTime", {"start", "stop"})
        push_back == OpsAt("timings.push_back", {})
        record_w == OpsAt("hipEventRecord", {"warmup_current"})
        sync_w == OpsAt("hipEventSynchronize", {"warmup_current"})
        elapsed_w == OpsAt("hipEventElapsedTime",
                           {"warmup_start", "warmup_current"})
    IN /\ InTimedRepetition =>
            /\ C16_Before(record_start, call)
            /\ C16_Before(call, record_stop)
            /\ C16_Before(record_stop, sync_stop)
            /\ C16_Before(sync_stop, elapsed)
            /\ C16_Before(elapsed, push_back)
            /\ Cardinality(record_start) = 1
            /\ elapsed_w = {}
       /\ pc = "measure_check" /\ iter > 0 =>
            /\ \A S \in {call, record_stop, sync_stop, elapsed, push_back} :
                 Cardinality(S) = 1
            /\ push_back = {Len(ops)}
            /\ Len(timings) = iter
       /\ InWarmupRepetition =>
            /\ C16_Before(call, record_w)
            /\ C16_Before(record_w, sync_w)
            /\ C16_Before(sync_w, elapsed_w)
            /\ elapsed = {}
       /\ pc = "warmup_check" /\ warmup_count > 0 =>
            /\ Cardinality(elapsed_w) = 1
            /\ elapsed_w = {Len(ops)}

\* the second timed iteration of the pointer-batched program is complete
C16_Witness ==
  /\ prog = DGEQRF_BATCHED
  /\ pc = "measure_check" /\ iter = 2
  /\ Len(ops) = 6
  /\ ops[4] = Op("hipEventSynchronize", Ids({"stop"}))
  /\ ops[5] = Op("hipEventElapsedTime", Ids({"start", "stop"}))

(***************************************************************************)
(* C17: in the parallel region of the CPU eigensolver program, with the    *)
(* stride defaulted, no element of memory is written by two workers: the   *)
(* calls that are in flight side by side write disjoint sets of elements,  *)
(* every worker has a workspace of its own (a live allocation of lwork     *)
(* elements), and for two batch members the matrix slices [b*strideA,      *)
(* b*strideA + lda*N) and the eigenvalue slices [b*N, (b+1)*N) are         *)
(* disjoint and inside hA_copy and hW.                                     *)
(***************************************************************************)
C17_MatrixSlice(b) == {b * strideA + k : k \in 0..(lda * N - 1)}
C17_EigenvalueSlice(b) == {b * N + k : k \in 0..(N - 1)}

C17_NoDataRace ==
  prog = OPENBLAS_SSYEV /\ pc \in {"warmup_call", "timed_call"}
    /\ ~argv.has_stride =>
    /\ \A t, u \in Workers :
         t # u /\ ~(team[t] = Outside) /\ ~(team[u] = Outside) =>
           /\ team[t].thread_work # team[u].thread_work
           /\ Calling(t) /\ Calling(u) =>
                /\ team[t].b # team[u].b
                /\ Writes(t, team[t].b) \cap Writes(u, team[u].b) = {}
    /\ \A t \in Workers :
         ~(team[t] = Outside) =>
           \E r \in alloc : /\ Id(r) = team[t].thread_work
                            /\ r.state = "allocated" /\ r.n = sizes.lwork
    /\ \A b \in Members :
         /\ Region(b) \subseteq C17_MatrixSlice(b)
         /\ C17_MatrixSlice(b) \subseteq 0..(AllocN("hA_copy", 0) - 1)
         /\ C17_EigenvalueSlice(b) \subseteq 0..(AllocN("hW", 0) - 1)
         /\ \A c \in Members :
              b # c => /\ C17_MatrixSlice(b) \cap C17_MatrixSlice(c) = {}
                       /\ C17_EigenvalueSlice(b) \cap C17_EigenvalueSlice(c) = {}

\* two workers are inside LAPACKE_ssyev_work at the same time, on the two
\* members of a batch of padded 2 x 2 matrices
C17_Witness ==
  /\ prog = OPENBLAS_SSYEV
  /\ pc = "timed_call"
  /\ ~argv.has_stride
  /\ N = 2 /\ lda = 3 /\ batch_count = 2
  /\ Calling(0) /\ Calling(1)
  /\ team[0].b = 0 /\ team[1].b = 1
  /\ team[0].thread_work # team[1].thread_work

(***************************************************************************)
(* C18: the lifecycle of the buffers.  As the claim states it (C18_Every-  *)
(* BufferOnceBeforeWarmup): every buffer is allocated before the first     *)
(* warm-up repetition and freed after the report, once, and none is        *)
(* allocated or freed from the start of the warm-up to the end of the      *)
(* measurement.  What the programs do (C18_BufferLifecycle): that holds of *)
(* every buffer but the workspace thread_work of the CPU eigensolver       *)
(* program, one per worker, of lwork elements, which is allocated and      *)
(* freed once inside every warm-up repetition and inside every timed       *)
(* repetition.  A buffer is never resized: no program calls realloc, a     *)
(* buffer's element count is the one of its allocation.                    *)
(***************************************************************************)
Buffers == {r \in alloc : r.kind \in {"malloc", "hipMalloc"}}

\* allocated before the first warm-up repetition; freed, if at all, once and
\* by "clean up"; freed when main() has returned
C18_OnceAround(r) ==
  /\ r.at \in {"generate", "provision"}
  /\ r.frees <= 1
  /\ r.frees = 1 <=> r.state = "freed"
  /\ r.state = "freed" => r.freed_at = "cleanup"
  /\ Returned => r.state = "freed"
  /\ InWarmup \/ InMeasure => r.state = "allocated"

\* allocated and freed once inside one repetition
C18_OncePerRepetition(r) ==
  /\ prog = OPENBLAS_SSYEV
  /\ r.at \in {"warmup_call", "timed_call"}
  /\ r.n = sizes.lwork
  /\ r.frees <= 1
  /\ r.frees = 1 <=> r.state = "freed"
  /\ r.state = "freed" => r.freed_at = r.at
  /\ r.state = "allocated" =>
       /\ pc \in {r.at, "crashed"}
       /\ pc = r.at => \E t \in Workers : team[t].thread_work = Id(r)

Live(id) == \E r \in alloc : Id(r) = id /\ r.state = "allocated"

\* the operations the step adds to ops
NewOps ==
  IF ops' = ops THEN {}
  ELSE IF Len(ops') > Len(ops) /\ SubSeq(ops', 1, Len(ops)) = ops
       THEN {ops'[i] : i \in (Len(ops) + 1)..Len(ops')}
       ELSE {ops'[i] : i \in 1..Len(ops')}

\* an operation is given live resources only (a resource may be acquired by
\* the operation itself, none is released by one that uses it)
C19_Step ==
  \A op \in NewOps : \A id \in op.on :
    \E r \in alloc' : Id(r) = id /\ r.state = "allocated"

\* what is in use between two steps is live
C19_InUse ==
  /\ \A r \in alloc : r.frees <= 1 /\ (r.frees = 1 <=> r.state = "freed")
  /\ \A t \in Workers :
       Calling(t) => /\ Live(team[t].thread_work)
                     /\ \A id \in CallResources(prog) : Live(id)
  /\ AfterProvision /\ pc # "exited" =>
       \A name \in CleanUpNames(prog) : \E r \in alloc : r.buf = name
  /\ AfterProvision /\ IsGPU(prog) =>
       \A name \in {"handle", "start", "stop", "warmup_start",
                    "warmup_current"} : \E r \in alloc : r.buf = name

C19_AllReleased == \A r \in alloc : r.frees = 1 /\ r.state = "freed"

C19_ReleasedExactlyOnce ==
  /\ [](Accepted /\ pc \in {"exited", "crashed"} => C19_AllReleased)
  /\ []C19_InUse
  /\ [][C19_Step]_vars

C19_ReleasedOnReturn ==
  /\ [](Returned => C19_AllReleased)
  /\ []C19_InUse
  /\ [][C19_Step]_vars

(***************************************************************************)
(* C20: the order of the phases.  As the claim states it (C20_Linear-      *)
(* Phases): a run goes through parse, generate, provision, warm up,        *)
(* measure, report, free in this order, every step staying in its phase or *)
(* entering the next one; a run whose arguments parse ends after free      *)
(* only; no warm-up repetition follows a timed one, the samples are        *)
(* complete when the report is printed, and it is printed once.  What      *)
(* holds of the programs (C20_LinearUnlessKilled): the same, but that a    *)
(* run the heap overrun of C4 kills ends in whatever phase it is in.       *)
(***************************************************************************)
\* the phase main() is in, by its number
Phase(at) ==
  CASE at = "parse" -> 1
    [] at = "generate" -> 2
    [] at = "provision" -> 3
    [] at \in {"warmup_check", "warmup_call", "warmup_tick"} -> 4
    [] at \in {"measure_check", "timed_call", "timed_stop"} -> 5
    [] at \in {"statistics", "report"} -> 6
    [] at = "cleanup" -> 7
    [] at \in {"exited", "crashed"} -> 8

C20_Ordered ==
  /\ pc' # "crashed" /\ ~(pc = "parse" /\ ~Accepted) =>
       Phase(pc') \in {Phase(pc), Phase(pc) + 1}
  /\ pc = "parse" /\ ~Accepted => pc' \in {"parse", "exited"}
  \* no warm-up repetition once the measurement has begun
  /\ Phase(pc) >= 5 =>
       /\ warmup_count' = warmup_count
       /\ pc' \notin {"warmup_check", "warmup_call", "warmup_tick"}
  \* no sample once the report has begun
  /\ Phase(pc) >= 6 => timings' = timings
  \* the report is printed by the step from "report" to "cleanup" alone
  /\ CopiesIn(LineReport', stdout') # CopiesIn(LineReport', stdout) =>
       /\ pc = "report" /\ pc' = "cleanup"
       /\ Len(timings) = iterations
       /\ CopiesIn(LineReport', stdout) = 0

\* a phase is entered with the previous ones done: none was skipped
C20_Reached ==
  /\ Phase(pc) >= 2 => Accepted \/ pc = "exited"
  /\ Accepted /\ pc # "crashed" =>
       /\ Phase(pc) >= 3 => hA # <<>>
       /\ Phase(pc) >= 4 =>
            /\ sizes # NoSizes
            /\ CopiesIn(LineWarmupBegin(warmup_time), stdout) = 1
       /\ Phase(pc) >= 5 =>
            /\ warmup_count >= 1
            /\ CopiesIn(LineWarmupDone(warmup_count, warmup_elapsed), stdout) = 1
       /\ Phase(pc) >= 6 => Len(timings) = iterations
       /\ Phase(pc) >= 7 => CopiesIn(LineReport, stdout) = 1
       /\ Phase(pc) >= 8 => \A r \in alloc : r.state = "freed"
       /\ Phase(pc) < 7 => CopiesIn(LineReport, stdout) = 0

C20_NotKilled == pc' # "crashed"

C20_LinearPhases ==
  /\ []C20_Reached
  /\ [][C20_Ordered]_vars
  /\ [][C20_NotKilled]_vars

C20_LinearUnlessKilled ==
  /\ []C20_Reached
  /\ [][C20_Ordered]_vars

(***************************************************************************)
(* C21: in the two SVD programs, the shape (leading dimension, per-member  *)
(* stride) a side is given, as a function of its mode.  The sentence says  *)
(* the three modes none, singular and all give three pairwise different    *)
(* shapes on the left side when N < M and on the right side when M < N     *)
(* (C21_ThreeShapesPerSide).  What holds of the programs                   *)
(* (C21_ShapesPerSide): this is so on the left side of both programs and   *)
(* on the right side of the GPU program; on the right side of the CPU      *)
(* program the modes singular and all give the same shape (N, N x N)       *)
(* whatever M is, and none gives (1, 1).  The run's own shape is the one   *)
(* of its mode.                                                            *)
(***************************************************************************)
\* the shape the program computes for one side when that side's mode is mode
\* and everything else is as in this run
C21_Shape(side, mode) ==
  LET sz == SizesOf(prog, M, N, lda, strideA, batch_count,
                    IF side = "left" THEN ParseSvect(mode) ELSE jobu,
                    IF side = "right" THEN ParseSvect(mode) ELSE jobvt)
  IN IF side = "left" THEN <<sz.ldu, sz.strideU>>
     ELSE IF IsCPU(prog) THEN <<sz.ldvt, sz.strideVT>>
     ELSE <<sz.ldv, sz.strideV>>

C21_Distinct(side) ==
  Cardinality({C21_Shape(side, mode) : mode \in SvectNames}) = 3

\* the shape this run allocated and passes to the library is the one of its mode
C21_OwnShape ==
  /\ C21_Shape("left", argv.left_svect) = <<sizes.ldu, sizes.strideU>>
  /\ C21_Shape("right", argv.right_svect) =
       (IF IsCPU(prog) THEN <<sizes.ldvt, sizes.strideVT>>
        ELSE <<sizes.ldv, sizes.strideV>>)

C21_ThreeShapesPerSide ==
  IsSVD(prog) /\ AfterProvision =>
    /\ C21_OwnShape
    /\ N < M => C21_Distinct("left")
    /\ M < N => C21_Distinct("right")

C21_ShapesPerSide ==
  IsSVD(prog) /\ AfterProvision =>
    /\ C21_OwnShape
    /\ N < M => C21_Distinct("left")
    /\ M < N /\ IsGPU(prog) => C21_Distinct("right")
    /\ IsCPU(prog) =>
         /\ C21_Shape("right", "singular") = <<N, N * N>>
         /\ C21_Shape("right", "all") = <<N, N * N>>
         /\ C21_Shape("right", "none") = <<1, 1>>

\* the CPU program on a 1 x 2 problem asked for the singular right vectors
\* only: VT has leading dimension 2 and stride 4, as with "all"
C21_Witness ==
  /\ prog = OPENBLAS_SGESVD
  /\ pc = "timed_stop"
  /\ M = 1 /\ N = 2
  /\ argv.right_svect = "singular"
  /\ sizes.ldvt = 2 /\ sizes.strideVT = 4
  /\ last_call.ldvt = 2

C23_Overwritten ==
  IF prog = DGEQRF_BATCHED
  THEN \A b \in Members : \A idx \in LocalRegion : work[b][idx] = Factored
  ELSE \A b \in Members :
         \A idx \in Region(b) \cap DOMAIN work : work[idx] = Factored

C23_CopiedOnce ==
  IsGPU(prog) /\ AfterProvision /\ (prog = SGESVDJ_STRIDED => InWarmup) =>
    /\ last_call = NoCall => work = hA /\ warmup_count = 0
    /\ last_call # NoCall => C23_Overwritten /\ work # hA
    /\ \A i \in DOMAIN ops : ops[i].what # "hipMemcpy"
    /\ pc \in {"warmup_call", "timed_call"} =>
         IF warmup_count = 0 THEN work = hA ELSE C23_Overwritten

\* the second timed call of the pointer-batched QR program is about to be
\* made on matrices that the calls before it have factored
C23_Witness ==
  /\ prog = DGEQRF_BATCHED
  /\ pc = "timed_call"
  /\ iter = 1
  /\ last_call.phase = "timed"
  /\ work[0][0] = Factored
  /\ hA[0][0] # Factored

(***************************************************************************)
(* C24: with the stride defaulted (and M, N, batch_count >= 1) every index *)
(* a generator stores to lies inside the allocation: i + j*lda + b*strideA *)
(* < strideA * batch_count for i < M, j < N (i, j < N in the symmetric     *)
(* generators), b < batch_count; in the pointer-batched program            *)
(* i + j*lda < lda * N, the size of each matrix's own allocation.  No      *)
(* store misses the buffer.  The generator is called with the clamped lda. *)
(***************************************************************************)
\* the indices the generator's loops store to, within one matrix
C24_Local ==
  {i + j * lda : i \in 0..((IF IsEigen(prog) THEN N ELSE M) - 1),
                 j \in 0..(N - 1)}

C24_GeneratorInBounds ==
  Accepted /\ AfterGenerate /\ ~argv.has_stride =>
    /\ M >= 1 /\ N >= 1 /\ batch_count >= 1
    /\ lda >= ArgRows /\ lda >= argv.lda
    /\ heap_overrun = {}
    /\ IF prog = DGEQRF_BATCHED
       THEN \A b \in Members :
              /\ DOMAIN hA[b] = 0..(lda * N - 1)
              /\ AllocN("hA[b]", b) = lda * N
              /\ \A idx \in C24_Local : idx < lda * N /\ hA[b][idx] # Uninit
       ELSE /\ DOMAIN hA = 0..(strideA * batch_count - 1)
            /\ AllocN("hA", 0) = strideA * batch_count
            /\ \A b \in Members : \A idx \in C24_Local :
                 /\ idx + b * strideA < strideA * batch_count
                 /\ hA[idx + b * strideA] # Uninit

\* --lda 1 with two rows: lda was raised to 2 before the generator ran, and
\* the last element of the buffer is the last one written
C24_Witness ==
  /\ prog = DGEQRF_STRIDED
  /\ pc = "provision"
  /\ ~argv.has_stride
  /\ argv.lda = 1 /\ M = 2 /\ N = 2 /\ lda = 2 /\ batch_count = 2
  /\ heap_overrun = {}
  /\ hA[strideA * batch_count - 1] # Uninit

(***************************************************************************)
(* C25: a stride given with --stride is used as it is, whatever lda and N  *)
(* are.  The sentence says that a stride below lda x N makes the regions   *)
(* of consecutive members overlap and the last member's stores reach past  *)
(* the strideA x batch_count allocation (C25_UndersizedStride).  What      *)
(* holds of the programs (C25_StrideVerbatim): a matrix occupies the       *)
(* indices up to rows + (N-1) x lda; the generator stores past the         *)
(* allocation exactly when the stride is below that extent, which is       *)
(* lda x N only when lda equals the row count; and consecutive members     *)
(* overlap, the later one's draws replacing the earlier one's, when the    *)
(* stride is below lda x N and lda equals the row count.  With lda above   *)
(* the row count a stride between the extent and lda x N does neither.     *)
(***************************************************************************)
\* a run given --stride, from the return of the generator on
C25_Given == Accepted /\ argv.has_stride /\ (AfterGenerate \/ pc = "crashed")

\* the index just past the last element of a matrix, relative to its first
C25_Extent == M + (N - 1) * lda

\* the number of draws the generator takes per matrix
C25_Draws == IF IsEigen(prog) THEN (N * (N + 1)) \div 2 ELSE M * N

C25_Overlap(b) == Region(b) \cap Region(b + 1)

\* the last member's stores reach indices at or beyond the allocation
C25_Overrun ==
  /\ \E idx \in Region(batch_count - 1) : idx >= strideA * batch_count
  /\ heap_overrun # {}

C25_UndersizedStride ==
  C25_Given =>
    /\ strideA = argv.stride
    /\ DOMAIN hA = 0..(strideA * batch_count - 1)
    /\ strideA < lda * N =>
         /\ \A b \in Members : b + 1 \in Members => C25_Overlap(b) # {}
         /\ C25_Overrun

\* what the generator has done, at its return
C25_Generated ==
  /\ IF strideA < C25_Extent
     THEN /\ C25_Overrun
          /\ heap_overrun =
               {idx \in UNION {Region(b) : b \in Members} :
                  idx >= strideA * batch_count}
     ELSE heap_overrun = {}
  /\ strideA < lda * N /\ lda = M =>
       \A b \in Members : b + 1 \in Members =>
         /\ C25_Overlap(b) # {}
         /\ \A idx \in C25_Overlap(b) \cap DOMAIN hA :
              hA[idx].draw >= (b + 1) * C25_Draws

C25_StrideVerbatim ==
  C25_Given =>
    /\ strideA = argv.stride
    /\ Len0(hA) = strideA * batch_count
    /\ C25_Extent <= lda * N
    /\ lda = M => C25_Extent = lda * N
    /\ (strideA < C25_Extent) = (heap_overrun # {})
    /\ pc = "provision" => C25_Generated

\* 2 x 2 with --stride 3 and two members: element 3 of member 0 was
\* replaced by element 0 of member 1, and member 1 was stored past the
\* six elements allocated
C25_Witness ==
  /\ prog = SGESVDJ_STRIDED
  /\ pc = "provision"
  /\ argv.has_stride /\ strideA = 3
  /\ M = 2 /\ N = 2 /\ lda = 2 /\ batch_count = 2
  /\ hA[3].draw = 4
  /\ 6 \in heap_overrun

(***************************************************************************)
(* C26: the parallel region of the CPU eigensolver program, in every       *)
(* warm-up and every timed repetition.  Every batch member is handed to    *)
(* one worker, once: a member leaves the set of those still to be done     *)
(* when one idle worker takes it, that worker calls the solver on it, and  *)
(* the set is refilled only at the head of the next repetition.  Every     *)
(* worker allocates its workspace when the team forks, before it takes a   *)
(* member, and frees it at the join, after its last one.  The host goes on *)
(* (warmup_count++, stop = now) only from the join, which waits until no   *)
(* member is left and no call is in flight: the whole batch has been       *)
(* processed inside the timed interval.                                    *)
(***************************************************************************)
C26_InFlight == {team[t].b : t \in {u \in Workers : Calling(u)}}

C26_WorkspaceLive(t) ==
  \E r \in alloc : Id(r) = team[t].thread_work /\ r.state = "allocated"

C26_Region ==
  prog = OPENBLAS_SSYEV /\ AfterProvision =>
    /\ C26_InFlight \subseteq Members \ pending
    /\ \A t, u \in Workers :
         Calling(t) /\ Calling(u) /\ t # u => team[t].b # team[u].b
    /\ \A t \in Workers :
         IF team[t].at = "outside"
         THEN \A r \in alloc : r.buf = "thread_work" => r.state = "freed"
         ELSE pc \in {"warmup_call", "timed_call"} /\ C26_WorkspaceLive(t)
    \* the host is past the region: the whole batch has been processed
    /\ pc \in {"warmup_tick", "timed_stop"} =>
         /\ pending = {}
         /\ \A t \in Workers : team[t].at = "outside"
         /\ \A b \in Members :
              \A idx \in Region(b) \cap DOMAIN work : work[idx] = Factored
         /\ last_call.phase = (IF pc = "warmup_tick" THEN "warmup" ELSE "timed")

C26_Step ==
  prog = OPENBLAS_SSYEV =>
    \* the members still to be done: all of them at the head of a repetition,
    \* one fewer when an idle worker takes one
    /\ pending' # pending =>
         \/ pc \in {"warmup_check", "measure_check"} /\ pending' = Members
         \/ /\ pc \in {"warmup_call", "timed_call"}
            /\ \E t \in Workers :
                 /\ Idle(t) /\ team'[t].at = "calling"
                 /\ team'[t].b \in pending
                 /\ pending' = pending \ {team'[t].b}
                 /\ \A u \in Workers \ {t} : team'[u] = team[u]
    /\ \A t \in Workers :
         \* a worker starts a call on a member it has just taken
         /\ team'[t].at = "calling" /\ ~Calling(t) =>
              /\ Idle(t)
              /\ team'[t].b \in pending /\ team'[t].b \notin pending'
              /\ team'[t].thread_work = team[t].thread_work
         \* a call is made on the member taken and returns to its worker
         /\ Calling(t) =>
              /\ team'[t].at \in {"calling", "idle"}
              /\ team'[t].at = "calling" => team'[t] = team[t]
              /\ team'[t].at = "idle" =>
                   /\ last_call'.member = team[t].b
                   /\ pending' = pending
                   /\ team'[t].thread_work = team[t].thread_work
         \* fork: all workers together, each with a fresh workspace
         /\ team[t].at = "outside" /\ team'[t].at # "outside" =>
              /\ pc \in {"warmup_call", "timed_call"} /\ pending = Members
              /\ \A u \in Workers :
                   /\ team[u].at = "outside" /\ team'[u].at = "idle"
                   /\ \A r \in alloc : Id(r) # team'[u].thread_work
                   /\ \E r \in alloc' :
                        Id(r) = team'[u].thread_work /\ r.state = "allocated"
         \* join: all workers together, each freeing its workspace
         /\ team[t].at # "outside" /\ team'[t].at = "outside" =>
              /\ pending = {}
              /\ \A u \in Workers :
                   /\ Idle(u) /\ team'[u].at = "outside"
                   /\ \E r \in alloc' :
                        Id(r) = team[u].thread_work /\ r.state = "freed"
              /\ pc' = (IF pc = "warmup_call" THEN "warmup_tick" ELSE "timed_stop")
    \* the host goes on from the join alone
    /\ pc' \in {"warmup_tick", "timed_stop"} /\ pc' # pc =>
         /\ pending = {}
         /\ \A t \in Workers : Idle(t) /\ team'[t].at = "outside"
    /\ warmup_count' # warmup_count \/ timings' # timings =>
         /\ pending = {}
         /\ \A t \in Workers : team[t].at = "outside"

C26_ForkJoin ==
  /\ []C26_Region
  /\ [][C26_Step]_vars

\* the second timed repetition of a batch of two is complete: both members
\* processed, the team joined, the workspaces of all repetitions freed
C26_Witness ==
  /\ prog = OPENBLAS_SSYEV
  /\ pc = "timed_stop"
  /\ iter = 1 /\ batch_count = 2
  /\ pending = {}
  /\ \A t \in Workers : team[t].at = "outside"
  /\ last_call.phase = "timed"
  /\ Cardinality({r \in alloc : r.buf = "thread_work" /\ r.state = "freed"})
       = (warmup_count + 2) * MaxThreads

(***************************************************************************)
(* C27: the CPU SVD program has one workspace, of lwork = 5 x max(M,N)     *)
(* elements, which is at least max(1, 3 x min(M,N) + max(M,N),             *)
(* 5 x min(M,N)), what sgesvd asks for.  The calls are made by the one     *)
(* host thread, one member after the other in every repetition, each with  *)
(* this workspace: no two calls are in progress together.                  *)
(***************************************************************************)
\* the calls of the current repetition, as far as it has got
C27_Calls == {i \in DOMAIN ops : ops[i].what = SolverName(prog)}

C27_SingleWorkspace ==
  prog = OPENBLAS_SGESVD /\ AfterProvision =>
    /\ sizes.lwork = 5 * Max(M, N)
    /\ sizes.lwork >= 1
    /\ sizes.lwork >= 3 * Min(M, N) + Max(M, N)
    /\ sizes.lwork >= 5 * Min(M, N)
    \* one allocation, live as long as calls are made
    /\ Cardinality({r \in alloc : r.buf = "work"}) = 1
    /\ AllocN("work", 0) = sizes.lwork
    /\ \A r \in alloc : r.buf = "work" /\ ~Returned => r.state = "allocated"
    /\ ~\E r \in alloc : r.buf = "thread_work"
    \* every call is given it
    /\ last_call # NoCall => last_call.lwork = sizes.lwork
    /\ \A i \in C27_Calls : <<"work", 0>> \in ops[i].on
    \* the calls follow one another: no team of workers, and in a repetition
    \* one call per member done, in the order of b
    /\ \A t \in Workers : team[t].at = "outside"
    /\ pc \in {"warmup_call", "timed_call"} =>
         /\ Cardinality(C27_Calls) = Cardinality(Members \ pending)
         /\ \A b \in pending : \A c \in Members \ pending : c < b
    /\ pc \in {"warmup_tick", "timed_stop"} =>
         Cardinality(C27_Calls) = batch_count /\ pending = {}

\* a 1 x 2 problem: the second member of the timed repetition is about to
\* be given the ten-element workspace the three calls before it have used
C27_Witness ==
  /\ prog = OPENBLAS_SGESVD
  /\ pc = "timed_call"
  /\ M = 1 /\ N = 2 /\ batch_count = 2
  /\ pending = {1}
  /\ sizes.lwork = 10
  /\ last_call.member = 0 /\ last_call.phase = "timed" /\ last_call.lwork = 10
  /\ AllocN("work", 0) = 10

=============================================================================
